---------------------------- MODULE Spec2Model ----------------------------
(***************************************************************************)
(* A model of pyghmi's IPMI session layer (pyghmi/ipmi/private/session.py) *)
(* : one Session talking to one BMC over a UDP network that may lose,      *)
(* delay, duplicate and reorder datagrams.                                 *)
(*                                                                         *)
(* Time is abstract.  A retry deadline or a keepalive deadline may pass    *)
(* whenever the session is registered for it.  Session.timeout is kept in  *)
(* tenths of a second.                                                     *)
(*                                                                         *)
(* The dispatcher (Session.wait_for_rsp) is re-entrant: _xmit_packet calls *)
(* it before transmitting, so a handler that sends is suspended at that    *)
(* call while other datagrams are routed.  The suspended remainders are    *)
(* kept in `stack`.                                                        *)
(***************************************************************************)
EXTENDS Integers, Sequences, FiniteSets, TLC

(* ------------------------------ bounds -------------------------------- *)
\* commands (raw_command calls, keepalives included) issued after login
MaxCmds == 3
\* datagrams of the session the BMC answers
MaxTx == 6
\* datagrams handed to the dispatcher that the session ignores
MaxStale == 1
\* logon callbacks registered on the session (the constructor's included)
MaxWaiters == 2
\* handlers suspended inside _xmit_packet's dispatcher call at one time
MaxNest == 1
\* requests whose answers the network still holds
MaxInFlight == 3
\* calls of the Session constructor
MaxCalls == 4
\* Session instances created
MaxInstances == 3
\* bytes of console data in a SOL payload of the BMC
MaxData == 2
\* calls of Console.send_data
MaxSends == 2
\* datagrams of the session a BMC with an active SOL payload answers
MaxSolTx == 2

(* ------------------------- program constants -------------------------- *)
\* initialtimeout = 0.5, in tenths of a second
initialtimeout == 5
\* self.timeout += 1 (one second)
RetryIncrement == 10
\* if self.timeout > 5
TimeoutLimit == 50
\* self.localsid = 2017673555
InitialLocalSid == 2017673555
\* self.logontries = 5
InitialLogonTries == 5
\* self.tabooseq[...] = 16
TabooCount == 16
\* seqincrement = 7
MaxSeqIncrement == 7

\* 0.5 * random.random(), tenths of a second: a value j of [0, 0.5).  Every
\* draw is followed by the same number of retries (5 + j + 10k > 50 exactly
\* when k >= 5, for each j below 5), so the transitions draw the upper end,
\* the value that comes closest to the limit.
TimeoutJitter == {4}
\* the session ids a BMC hands out
BmcSids == {1}
\* sequence numbers a BMC puts on the datagrams of an active session
BmcSeqs == {1, 2}
\* completion code of a rejected command (0xC1) and of an invalid field
CodeOk == 0
CodeInvalidCommand == 193
CodeInvalidField == 204
\* RMCP+ status codes: 2 = invalid session id, 15 = a retried RAKP4's code
RmcpOk == 0
RmcpInvalidSid == 2
RmcpFifteen == 15
RmcpOtherError == 1

Self == "bmc1"

(* --------------------------- payloads --------------------------------- *)
\* pt: "none" (Python None), "ipmi", "rmcpplusopenreq", "rakp1", "rakp3".
\* cid is the raw_command call the payload was built for (0: login traffic).
Payload(pt, netfn, cmd, seqlun, data, cid, tag, lsid, psid, rand) ==
    [pt |-> pt, netfn |-> netfn, cmd |-> cmd, seqlun |-> seqlun, data |-> data,
     cid |-> cid, tag |-> tag, lsid |-> lsid, psid |-> psid, rand |-> rand]

NoPayload == Payload("none", 0, 0, 0, 0, 0, 0, 0, 0, 0)

IpmiPayload(netfn, cmd, seqlun, data, cid) ==
    Payload("ipmi", netfn, cmd, seqlun, data, cid, 0, 0, 0, 0)

NoPacket ==
    [ver |-> 0, authtype |-> 0, ptype |-> "none", integ |-> FALSE, sid |-> 0,
     seq |-> 0, key |-> 0, lsid |-> 0, payload |-> NoPayload]

NoCallback == [fn |-> "none", cid |-> 0]
LoginCallback(fn) == [fn |-> fn, cid |-> 0]

(* ---------------------------- variables ------------------------------- *)
VARIABLES
    session,             \* the attributes of the Session instance
    waiting_sessions,    \* Session.waiting_sessions (its keys)
    keepalive_sessions,  \* Session.keepalive_sessions (its keys)
    pending,             \* Session.pending
    iterwaiters,         \* Session.iterwaiters
    stack,               \* handlers suspended in _xmit_packet, innermost first
    wire,                \* the session's datagrams the BMC may still answer
    nonce,               \* os.urandom draws so far
    obs,                 \* what the callers and the network have observed
    console,             \* the attributes of the Console instance, if there is one
    instances,           \* the Session instances constructed so far
    bmc_handlers,        \* Session.bmc_handlers: the instance registered at each address
    env                  \* the BMC and what the network has done so far

vars == <<session, waiting_sessions, keepalive_sessions, pending, iterwaiters,
          stack, wire, nonce, obs, bmc_handlers, instances, console, env>>

\* The program state as one value, so that a handler is a function on it.
World ==
    [session |-> session, waiting_sessions |-> waiting_sessions,
     keepalive_sessions |-> keepalive_sessions, pending |-> pending,
     iterwaiters |-> iterwaiters, stack |-> stack, wire |-> wire,
     nonce |-> nonce, obs |-> obs,
     bmc_handlers |-> bmc_handlers,
     instances |-> instances,
     console |-> console]

Commit(w) ==
    /\ session' = w.session
    /\ waiting_sessions' = w.waiting_sessions
    /\ keepalive_sessions' = w.keepalive_sessions
    /\ pending' = w.pending
    /\ iterwaiters' = w.iterwaiters
    /\ stack' = w.stack
    /\ wire' = w.wire
    /\ nonce' = w.nonce
    /\ obs' = w.obs
    /\ console' = w.console
    /\ instances' = w.instances
    /\ bmc_handlers' = w.bmc_handlers

(* ------------------------- observation -------------------------------- *)
\* A callback of a command is invoked with a reply or with an error.
NoteCallback(w, cb, kind) ==
    IF cb.cid = 0 THEN w
    ELSE [w EXCEPT !.obs.cb[cb.cid] = Append(@, kind)]

\* Session.onlogon: every waiter is popped and called once.
Notified(notified, waiters, msg) ==
    [x \in DOMAIN notified |->
        IF \E i \in 1..Len(waiters) : waiters[i] = x
        THEN Append(notified[x], msg) ELSE notified[x]]

\* onlogon with a loop that calls the waiters and leaves them registered.
onlogon_keeping_waiters(w, msg) ==
    [w EXCEPT !.obs.notified = Notified(@, w.session.logonwaiters, msg)]

onlogon(w, msg) ==
    [w EXCEPT !.obs.notified = Notified(@, w.session.logonwaiters, msg),
              !.session.logonwaiters = <<>>]

(* --------------------------- transmission ----------------------------- *)
\* The datagram send_payload builds: the RMCP/IPMI frame around a payload.
\* lsid and key stand for what the BMC holds for the session the frame names:
\* the console's session id and the integrity key K1.
Frame(s, payload, ptype) ==
    [ver |-> s.ipmiversion, authtype |-> s.authtype, ptype |-> ptype,
     integ |-> (s.integrityalgo # "none"), sid |-> s.sessionid,
     seq |-> s.sequencenumber, key |-> s.k1, lsid |-> s.localsid,
     payload |-> payload]

\* The network holds the requests whose answers may still arrive: the
\* MaxInFlight latest datagrams of the session.
Sent(net, pkt) ==
    IF \E i \in 1..Len(net) : net[i] = pkt THEN net
    ELSE IF Len(net) < MaxInFlight THEN Append(net, pkt)
    ELSE Append(Tail(net), pkt)

\* _xmit_packet from the sequence number on: what follows its dispatcher call.
Xmit(w, retry) ==
    LET pkt == w.session.netpacket
        c == pkt.payload.cid
    IN [w EXCEPT
          !.session.sequencenumber = IF @ # 0 THEN @ + 1 ELSE @,
          !.waiting_sessions = IF retry THEN @ \cup {Self} ELSE @,
          !.pending = IF retry THEN @ + 1 ELSE @,
          !.wire = Sent(@, pkt),
          !.obs.ntx = @ + 1,
          !.obs.tx = IF c = 0 THEN @ ELSE [@ EXCEPT ![c] = @ + 1],
          !.obs.rakp = IF pkt.ptype \in {"rakp1", "rakp3"}
                       THEN Append(@, pkt.payload) ELSE @]

\* What remains of a suspended handler: k is "xmit" (the rest of _xmit_packet),
\* "parsetail" (the end of _parse_ipmi_payload), "route" (the end of
\* _route_ipmiresponse) or "syncwait" (the wait loop of a synchronous
\* raw_command).
\* timers tells how far the wait_for_rsp call of a suspended _xmit_packet has
\* got: 0 while it routes datagrams, 1 once it has run the keepalive, 2 once it
\* has run the expired deadline.
XmitFrame(retry) == [k |-> "xmit", retry |-> retry, rsp |-> 0, timers |-> 0]

\* wait_for_rsp calls every iterwaiter with {'success': True} on entry.
FlushIterwaiters(w) ==
    [w EXCEPT !.obs.notified = Notified(@, w.iterwaiters, "success"),
              !.iterwaiters = <<>>]

\* _xmit_packet: unless nowait, wait_for_rsp(timeout=0) runs first (the
\* handler is suspended on the stack until that call returns).
xmit_packet(w, retry, nowait) ==
    IF nowait THEN Xmit(w, retry)
    ELSE [FlushIterwaiters(w) EXCEPT !.stack = <<XmitFrame(retry)>> \o @]

\* send_payload with payload = None resends lastpayload.
SendPayloadNoQueue(w, payload, ptype, retry, nowait) ==
    LET s == w.session
        pt == IF ptype = "none" THEN s.last_payload_type ELSE ptype
        pl == IF payload = NoPayload THEN s.lastpayload ELSE payload
        w1 == [w EXCEPT
                 !.session.lastpayload = IF retry THEN pl ELSE @,
                 !.session.last_payload_type = IF retry THEN pt ELSE @,
                 !.session.netpacket = Frame(s, pl, pt)]
    IN xmit_packet(w1, retry, nowait)

\* send_payload without its test of lastpayload.
send_payload_unqueued(w, payload, ptype, retry, nowait) ==
    SendPayloadNoQueue(w, payload, ptype, retry, nowait)

send_payload(w, payload, ptype, retry, nowait) ==
    LET s == w.session
    IN IF payload # NoPayload /\ s.lastpayload # NoPayload
       THEN [w EXCEPT !.session.pendingpayloads =
                          Append(@, [payload |-> payload, ptype |-> ptype,
                                     retry |-> retry])]
       ELSE SendPayloadNoQueue(w, payload, ptype, retry, nowait)

\* A handler h0 -> h1 that sent is suspended in _xmit_packet; the statements
\* that follow the send wait beneath the frames it pushed.
Suspended(w0, w1) == Len(w1.stack) > Len(w0.stack)

Beneath(w0, w1, frame) ==
    LET n == Len(w1.stack) - Len(w0.stack)
    IN [w1 EXCEPT !.stack = SubSeq(@, 1, n) \o <<frame>> \o SubSeq(@, n + 1, Len(@))]

(* ------------------------------ console ------------------------------- *)
\* A SOL payload of the console: the four header bytes (sequence number,
\* acked sequence number, accepted character count, break flag) and the text.
SolPayload(myseq, ackseq, ackcount, sendbreak, text) ==
    [pt |-> "sol", netfn |-> 0, cmd |-> 0, seqlun |-> 0, data |-> 0, cid |-> 0,
     tag |-> 0, lsid |-> 0, psid |-> 0, rand |-> 0,
     hdr |-> <<myseq, ackseq, ackcount, sendbreak>>, text |-> text]

\* A SOL payload of the BMC: its header bytes taken apart as _got_sol_payload
\* does, and the data that follows them.
SolPacket(newseq, ackseq, ackcount, nacked, poweredoff, deactivated, data) ==
    [newseq |-> newseq, ackseq |-> ackseq, ackcount |-> ackcount,
     nacked |-> nacked, poweredoff |-> poweredoff, deactivated |-> deactivated,
     data |-> data]

\* Console.__init__, with a callable iohandler.  printed is the data that
\* the SOL payload handled last gave the consumer, said the message that was
\* printed last, nsent the calls of send_data.
NewConsole(force) ==
    [remseq |-> 0, myseq |-> 0, lastsize |-> 0, sendbreak |-> 0, ackedcount |-> 0,
     ackedseq |-> 0, retriedpayload |-> 0, pendingoutput |-> <<>>,
     awaitingack |-> FALSE, force_session |-> force, lastpayload |-> NoPayload,
     printed |-> <<>>, said |-> "", nsent |-> 0]

\* No Console has been constructed.
NoConsole == [NewConsole(FALSE) EXCEPT !.said = "no console"]

\* A slice that keeps the whole sequence.
Slice_whole(seq, from) == seq

\* seq[from + 1 ..], as the slice seq[from:] of the code.
Slice(seq, from) == SubSeq(seq, from + 1, Len(seq))

\* _sendpendingoutput
\* _sendpendingoutput whose counter goes through 0.
sendpendingoutput_through_zero(w) ==
    LET c == w.console
        myseq == (c.myseq + 1) % 16
        payload == SolPayload(myseq, c.ackedseq, c.ackedseq, c.sendbreak,
                              c.pendingoutput)
    IN send_payload([w EXCEPT !.console.myseq = myseq,
                              !.console.pendingoutput = <<>>,
                              !.console.awaitingack = TRUE,
                              !.console.lastpayload = payload],
                    payload, "sol", TRUE, FALSE)

sendpendingoutput(w) ==
    LET c == w.console
        myseq == IF (c.myseq + 1) % 16 = 0 THEN 1 ELSE (c.myseq + 1) % 16
        payload == SolPayload(myseq, c.ackedseq, c.ackedseq, c.sendbreak,
                              c.pendingoutput)
    IN send_payload([w EXCEPT !.console.myseq = myseq,
                              !.console.pendingoutput = <<>>,
                              !.console.awaitingack = TRUE,
                              !.console.lastpayload = payload],
                    payload, "sol", TRUE, FALSE)

\* Console.send_data
\* send_data that builds a packet whether or not one awaits its ack.
send_data_unheld(w, data) ==
    sendpendingoutput([w EXCEPT !.console.pendingoutput = @ \o data,
                                !.console.nsent = @ + 1])

send_data(w, data) ==
    LET w1 == [w EXCEPT !.console.pendingoutput = @ \o data,
                        !.console.nsent = @ + 1]
    IN IF ~w.console.awaitingack THEN sendpendingoutput(w1) ELSE w1

\* The rest of _got_sol_payload reads the ack fields of the payload only.
SolTailFrame(p) ==
    [k |-> "soltail", retry |-> FALSE, timers |-> 0,
     rsp |-> [p EXCEPT !.newseq = 0, !.data = <<>>]]

\* _got_sol_payload from its test of ackseq on: what follows the ack it sent.
\* self.lastpayload[4 + ackcount:] is the text past its first ackcount bytes.
sol_tail(w, p) ==
    LET c == w.console
    IN IF c.myseq # 0 /\ p.ackseq = c.myseq
       THEN LET w1 == [w EXCEPT !.console.awaitingack = FALSE]
            IN IF ~p.nacked THEN w1
               ELSE LET w2 == IF p.poweredoff
                              THEN [w1 EXCEPT !.console.said =
                                                 "Remote system is powered down"]
                              ELSE w1
                    IN IF p.deactivated
                       THEN [w2 EXCEPT !.console.said =
                                          "Remote IPMI console disconnected"]
                       ELSE sendpendingoutput(
                              [w2 EXCEPT !.console.pendingoutput =
                                            Slice(c.lastpayload.text, p.ackcount) \o @])
       ELSE IF c.awaitingack
            THEN send_payload(w, c.lastpayload, "sol", TRUE, FALSE)
            ELSE w

\* _got_sol_payload without the ack it sends.
got_sol_payload_no_ack(w, p) ==
    sol_tail([w EXCEPT !.console.printed = IF p.newseq = 0 THEN <<>> ELSE p.data,
                       !.console.remseq = IF p.newseq = 0 THEN @ ELSE p.newseq,
                       !.console.lastsize = IF p.newseq = 0 THEN @ ELSE Len(p.data)],
             p)

\* _got_sol_payload.  remdata is the payload past its four header bytes;
\* for a repeated sequence number it is then cut at 4 + lastsize.
got_sol_payload(w, p) ==
    LET c == w.console
        remdatalen == Len(p.data)
        remdata == IF p.newseq # c.remseq THEN p.data
                   ELSE IF remdatalen > c.lastsize
                        THEN Slice(p.data, 4 + c.lastsize)
                        ELSE <<>>
        remseq == IF p.newseq # c.remseq THEN p.newseq ELSE c.remseq
        w0 == [w EXCEPT !.console.printed = <<>>]
    IN IF p.newseq = 0 THEN sol_tail(w0, p)
       ELSE LET w1 == [w0 EXCEPT !.console.remseq = remseq,
                                 !.console.lastsize = remdatalen,
                                 !.console.printed = remdata]
                w2 == send_payload(w1, SolPayload(0, remseq, remdatalen, 0, <<>>),
                                   "sol", FALSE, FALSE)
            IN IF Suspended(w1, w2)
               THEN Beneath(w1, w2, SolTailFrame(p))
               ELSE sol_tail(w2, p)

(* ------------------------ building requests --------------------------- *)
\* _initsession.  It leaves lastpayload, pendingpayloads, incommand, the
\* expected reply, the logon waiters and the inbound sequence numbers alone.
initsession(w, jitter) ==
    [w EXCEPT !.session =
        [@ EXCEPT !.localsid = InitialLocalSid,
                  !.confalgo = "none",
                  !.integrityalgo = "none",
                  !.k1 = 0,
                  !.rmcptag = 1,
                  !.ipmicallback = NoCallback,
                  !.sessioncontext = "None",
                  !.sequencenumber = 0,
                  !.sessionid = 0,
                  !.authtype = 0,
                  !.ipmiversion = 15,
                  !.timeout = initialtimeout + jitter,
                  !.seqlun = 0,
                  !.logged = 0,
                  !.tabooseq = <<>>,
                  !.ipmi15only = 0]]

TabooKey(netfn, cmd, seqlun) == <<netfn, cmd, seqlun>>

\* The while loop of _make_ipmi_payload.  The key it tests is the request's
\* netfn, the key it decrements is the reply's; a missing key raises KeyError.
RECURSIVE TabooSkip(_, _, _, _, _)
TabooSkip(taboo, netfn, cmd, seqlun, seqincrement) ==
    IF /\ TabooKey(netfn, cmd, seqlun) \in DOMAIN taboo
       /\ taboo[TabooKey(netfn, cmd, seqlun)] # 0
       /\ seqincrement # 0
    THEN IF TabooKey(netfn + 1, cmd, seqlun) \in DOMAIN taboo
         THEN TabooSkip([taboo EXCEPT ![TabooKey(netfn + 1, cmd, seqlun)] = @ - 1],
                        netfn, cmd, (seqlun + 4) % 256, seqincrement - 1)
         ELSE [seqlun |-> seqlun, tabooseq |-> taboo, raised |-> TRUE]
    ELSE [seqlun |-> seqlun, tabooseq |-> taboo, raised |-> FALSE]

\* _make_ipmi_payload: the session after it, the payload, and whether it raised.
make_ipmi_payload(w, netfn, cmd, data, cid) ==
    LET s == w.session
        r == TabooSkip(s.tabooseq, netfn, cmd, s.seqlun, MaxSeqIncrement)
    IN [w |-> [w EXCEPT !.session.expectedcmd = cmd,
                        !.session.expectednetfn = netfn + 1,
                        !.session.seqlun = r.seqlun,
                        !.session.tabooseq = r.tabooseq,
                        !.obs.raised = @ \/ r.raised],
        payload |-> IpmiPayload(netfn, cmd, r.seqlun, data, cid),
        raised |-> r.raised]

send_ipmi_net_payload(w, netfn, cmd, data, cid, retry, nowait) ==
    LET m == make_ipmi_payload(w, netfn, cmd, data, cid)
    IN IF m.raised THEN m.w
       ELSE send_payload(m.w, m.payload, "ipmi", retry, nowait)

\* Get Channel Authentication Capabilities: 0x8e asks for IPMI 2.0 data.
ProbeV20 == 142
ProbeV15 == 14
CmdAuthCap == 56
CmdChallenge == 57
CmdActivate == 58
CmdPrivLevel == 59
CmdGetDeviceId == 1
NetFnApp == 6

get_channel_auth_cap(w, nowait) ==
    LET w1 == [w EXCEPT !.session.ipmicallback =
                            LoginCallback("got_channel_auth_cap")]
    IN IF w1.session.ipmi15only # 0
       THEN send_ipmi_net_payload(w1, NetFnApp, CmdAuthCap, ProbeV15, 0, TRUE, nowait)
       ELSE send_ipmi_net_payload(w1, NetFnApp, CmdAuthCap, ProbeV20, 0, TRUE, nowait)

get_session_challenge(w, nowait) ==
    send_ipmi_net_payload(
        [w EXCEPT !.session.ipmicallback = LoginCallback("got_session_challenge")],
        NetFnApp, CmdChallenge, 0, 0, TRUE, nowait)

activate_session(w, nowait) ==
    send_ipmi_net_payload(
        [w EXCEPT !.session.ipmicallback = LoginCallback("activated_session")],
        NetFnApp, CmdActivate, 0, 0, TRUE, nowait)

req_priv_level(w, nowait) ==
    send_ipmi_net_payload(
        [w EXCEPT !.session.ipmicallback = LoginCallback("got_priv_level")],
        NetFnApp, CmdPrivLevel, 0, 0, TRUE, nowait)

open_rmcpplus_request(w, nowait) ==
    LET s == w.session
        w1 == [w EXCEPT !.session.authtype = 6,
                        !.session.localsid = @ + 1,
                        !.session.rmcptag = @ + 1,
                        !.session.sessioncontext = "OPENSESSION"]
    IN send_payload(w1,
                    Payload("rmcpplusopenreq", 0, 0, 0, 0, 0,
                            s.rmcptag + 1, s.localsid + 1, 0, 0),
                    "rmcpplusopenreq", TRUE, nowait)

\* _send_rakp1: os.urandom(16) is a value never drawn before.
send_rakp1(w, nowait) ==
    LET s == w.session
        w1 == [w EXCEPT !.session.rmcptag = @ + 1,
                        !.session.randombytes = w.nonce + 1,
                        !.nonce = @ + 1,
                        !.session.sessioncontext = "EXPECTINGRAKP2"]
    IN send_payload(w1,
                    Payload("rakp1", 0, 0, 0, 0, 0,
                            s.rmcptag + 1, s.localsid, s.pendingsessionid,
                            w.nonce + 1),
                    "rakp1", TRUE, nowait)

\* _send_rakp3.  rand names the exchange the BMC ties the message to.
send_rakp3(w, nowait) ==
    LET s == w.session
        w1 == [w EXCEPT !.session.rmcptag = @ + 1]
    IN send_payload(w1,
                    Payload("rakp3", 0, 0, 0, 0, 0,
                            s.rmcptag + 1, s.localsid, s.pendingsessionid,
                            s.randombytes),
                    "rakp3", TRUE, nowait)

relog(w, jitter, nowait) ==
    get_channel_auth_cap(
        [initsession(w, jitter) EXCEPT !.session.logontries = @ - 1], nowait)

(* ---------------------------- raw_command ----------------------------- *)
SyncWaitFrame == [k |-> "syncwait", retry |-> FALSE, rsp |-> 0, timers |-> 0]

\* raw_command past its wait on incommand.  A synchronous call (no callback)
\* then loops in wait_for_rsp until _generic_callback has stored a response.
raw_command(w, netfn, cmd, retry, cb) ==
    LET sync == (cb.fn = "generic")
        w1 == [w EXCEPT !.session.incommand = TRUE,
                        !.session.ipmicallback = cb,
                        !.session.lastresponse = IF sync THEN "None" ELSE @,
                        !.obs.ncmds = @ + 1,
                        !.obs.cmds[cb.cid] = [retry |-> retry, sync |-> sync,
                                              netfn |-> netfn, cmd |-> cmd]]
        w2 == send_ipmi_net_payload(w1, netfn, cmd, 0, cb.cid, retry, FALSE)
    IN IF sync THEN Beneath(w1, w2, SyncWaitFrame) ELSE w2

\* Activate Payload and Deactivate Payload, and the completion code of the
\* first that says the payload is active on another session.
CmdActivatePayload == 72
CmdDeactivatePayload == 73
CodePayloadActive == 128
CodeSolDisabled == 129

\* constants.ipmi_completion_codes holds the generic completion codes of
\* IPMI, 0xC0 to 0xFF, and none of a command's own.
InCompletionCodes(code) == code >= 192

\* Console._got_session: the logon callback, and the callback of Deactivate
\* Payload.
got_session(w, rsp) ==
    IF rsp.error # "" THEN [w EXCEPT !.console.said = rsp.error]
    ELSE raw_command(w, NetFnApp, CmdActivatePayload, TRUE,
                     [fn |-> "payload_activated", cid |-> w.obs.ncmds + 1])

\* _payload_activated that deactivates the payload whenever it is active
\* elsewhere and the session is forced.
payload_activated_deactivating(w, rsp) ==
    IF rsp.error = "" /\ rsp.code = CodePayloadActive /\ w.console.force_session
    THEN raw_command(w, NetFnApp, CmdDeactivatePayload, TRUE,
                     [fn |-> "got_session", cid |-> w.obs.ncmds + 1])
    ELSE [w EXCEPT !.session.sol_handler = (rsp.error = "" /\ rsp.code = CodeOk)]

\* Console._payload_activated.  A response that is an error has no 'code':
\* response['code'] raises KeyError once the error is printed.
payload_activated(w, rsp) ==
    IF rsp.error # "" THEN [w EXCEPT !.console.said = rsp.error, !.obs.raised = TRUE]
    ELSE IF rsp.code = CodeOk THEN [w EXCEPT !.session.sol_handler = TRUE]
    ELSE IF InCompletionCodes(rsp.code)
         THEN [w EXCEPT !.console.said = "ipmi error"]
    ELSE IF rsp.code = CodePayloadActive
         THEN IF w.console.force_session /\ w.console.retriedpayload = 0
              THEN raw_command([w EXCEPT !.console.retriedpayload = 1],
                               NetFnApp, CmdDeactivatePayload, TRUE,
                               [fn |-> "got_session", cid |-> w.obs.ncmds + 1])
              ELSE [w EXCEPT !.console.said = "SOL Session active for another client"]
    ELSE [w EXCEPT !.console.said = "SOL error"]

(* --------------------------- callbacks -------------------------------- *)
\* What a callback receives: {'error': ...} or the parsed reply.
Response(error, netfn, cmd, code, data) ==
    [error |-> error, netfn |-> netfn, command |-> cmd, code |-> code,
     data |-> data]

TimeoutResponse == Response("timeout", 0, 0, 0, 0)

\* get_ipmi_error: the error text, or "" (False) for completion code 0.
get_ipmi_error(rsp) ==
    IF rsp.error # "" THEN rsp.error
    ELSE IF rsp.code = CodeOk THEN "" ELSE "ipmi error"

got_channel_auth_cap(w, rsp, nowait) ==
    IF rsp.error # "" THEN onlogon(w, rsp.error)
    ELSE IF rsp.code = CodeInvalidField
         \* "and self.ipmi15only is not None": it is 0 or 1, never None
         THEN get_channel_auth_cap([w EXCEPT !.session.ipmi15only = 1], nowait)
    ELSE IF get_ipmi_error(rsp) # "" THEN onlogon(w, get_ipmi_error(rsp))
    ELSE LET w1 == IF rsp.data.v20
                   THEN [w EXCEPT !.session.ipmiversion = 20] ELSE w
         IN IF w1.session.ipmiversion = 15
            THEN IF ~rsp.data.md5
                 THEN onlogon(w1, "MD5 required but not enabled/available on target BMC")
                 ELSE get_session_challenge(w1, nowait)
            ELSE open_rmcpplus_request(w1, nowait)

got_session_challenge(w, rsp, nowait) ==
    IF get_ipmi_error(rsp) # "" THEN onlogon(w, get_ipmi_error(rsp))
    ELSE activate_session([w EXCEPT !.session.sessionid = rsp.data.sid,
                                    !.session.authtype = 2], nowait)

activated_session(w, rsp, nowait) ==
    IF get_ipmi_error(rsp) # "" THEN onlogon(w, get_ipmi_error(rsp))
    ELSE req_priv_level([w EXCEPT !.session.sessionid = rsp.data.sid,
                                  !.session.sequencenumber = rsp.data.iseq],
                        nowait)

\* _got_priv_level that notifies the waiters and leaves logged alone.
got_priv_level_unlogged(w, rsp) ==
    IF get_ipmi_error(rsp) # "" THEN onlogon(w, get_ipmi_error(rsp))
    ELSE onlogon([w EXCEPT !.keepalive_sessions = @ \cup {Self}], "success")

got_priv_level(w, rsp) ==
    IF get_ipmi_error(rsp) # "" THEN onlogon(w, get_ipmi_error(rsp))
    ELSE onlogon([w EXCEPT !.session.logged = 1,
                           !.keepalive_sessions = @ \cup {Self}],
                 "success")

\* _generic_callback, the callback of a synchronous raw_command.
generic_callback(w, cb, rsp) ==
    NoteCallback([w EXCEPT !.session.lastresponse = "set"], cb,
                 IF rsp.error # "" THEN rsp.error ELSE "reply")

\* call_with_optional_args(self.ipmicallback, response, ...)
InvokeCallback(w, cb, rsp, nowait) ==
    CASE cb.fn = "got_channel_auth_cap" -> got_channel_auth_cap(w, rsp, nowait)
      [] cb.fn = "got_session_challenge" -> got_session_challenge(w, rsp, nowait)
      [] cb.fn = "activated_session" -> activated_session(w, rsp, nowait)
      [] cb.fn = "got_priv_level" -> got_priv_level(w, rsp)
      [] cb.fn = "generic" -> generic_callback(w, cb, rsp)
      [] cb.fn = "payload_activated" ->
            payload_activated(NoteCallback(w, cb, IF rsp.error # "" THEN rsp.error
                                                  ELSE "reply"), rsp)
      [] cb.fn = "got_session" ->
            got_session(NoteCallback(w, cb, IF rsp.error # "" THEN rsp.error
                                            ELSE "reply"), rsp)
      [] cb.fn = "user" ->
            NoteCallback(w, cb, IF rsp.error # "" THEN rsp.error ELSE "reply")
      [] OTHER -> [w EXCEPT !.obs.raised = TRUE]

(* ------------------------- inbound handlers --------------------------- *)
ParseTailFrame(rsp) ==
    [k |-> "parsetail", retry |-> FALSE, rsp |-> rsp, timers |-> 0]

\* The end of _parse_ipmi_payload: release the command, call its callback.
ParseTail(w, rsp) ==
    InvokeCallback([w EXCEPT !.session.incommand = FALSE],
                   w.session.ipmicallback, rsp, FALSE)

SetTaboo(taboo, key) ==
    [x \in (DOMAIN taboo) \cup {key} |-> IF x = key THEN TabooCount ELSE taboo[x]]

\* The next pending payload is sent before the callback runs.
SendNextPending(w, rsp) ==
    LET nxt == Head(w.session.pendingpayloads)
        w1 == [w EXCEPT !.session.pendingpayloads = Tail(@)]
        w2 == send_payload(w1, nxt.payload, nxt.ptype, nxt.retry, FALSE)
    IN IF Suspended(w1, w2)
       THEN Beneath(w1, w2, ParseTailFrame(rsp))
       ELSE ParseTail(w2, rsp)

\* The test without netfn and cmd: any payload with the session's seqlun passes.
ExpectedReply_seqlun_only(s, p) == p.seqlun = s.seqlun

ExpectedReply(s, p) ==
    /\ p.seqlun = s.seqlun
    /\ p.netfn = s.expectednetfn
    /\ p.cmd = s.expectedcmd

NoExpected == 511

\* _parse_ipmi_payload; p is the reply payload with its netfn already shifted.
parse_ipmi_payload(w, p, jitter) ==
    LET s == w.session
    IN IF ~ExpectedReply(s, p) THEN w
       ELSE LET w1 == [w EXCEPT
                    !.session.hasretried = 0,
                    !.session.tabooseq =
                        IF s.hasretried # 0
                        THEN SetTaboo(@, TabooKey(s.expectednetfn, s.expectedcmd,
                                                  s.seqlun))
                        ELSE @,
                    !.session.expectednetfn = NoExpected,
                    !.session.expectedcmd = NoExpected,
                    !.session.seqlun = (@ + 4) % 256,
                    !.waiting_sessions = @ \ {Self},
                    !.session.lastpayload = NoPayload,
                    !.session.last_payload_type = "none",
                    !.session.timeout = initialtimeout + jitter]
                rsp == Response("", p.netfn, p.cmd, p.code, p.data)
            IN IF Len(s.pendingpayloads) > 0
               THEN SendNextPending(w1, rsp)
               ELSE ParseTail(w1, rsp)

\* _got_rmcp_response: the RMCP+ open session response.
got_rmcp_response(w, d) ==
    LET s == w.session
    IN IF s.sessioncontext = "None" THEN w
          \* the test against "Established" never excludes 'ESTABLISHED'
       ELSE IF d.tag # s.rmcptag THEN w
       ELSE IF d.code # RmcpOk THEN onlogon(w, "rmcp error")
       ELSE IF s.localsid # d.lsid THEN w
       ELSE send_rakp1([w EXCEPT !.session.pendingsessionid = d.psid,
                                 !.session.lastpayload = NoPayload], FALSE)

\* The RAKP2 HMAC is keyed with the password and covers both session ids and
\* the console's random number.
Rakp2HashOk(s, d) ==
    /\ d.good
    /\ d.psid = s.pendingsessionid
    /\ d.rand = s.randombytes

got_rakp2(w, d) ==
    LET s == w.session
    IN IF s.sessioncontext \notin {"EXPECTINGRAKP2", "EXPECTINGRAKP4"} THEN w
       ELSE IF d.tag # s.rmcptag THEN w
       ELSE IF d.code # RmcpOk
            THEN IF d.code = RmcpInvalidSid THEN w
                 ELSE onlogon(w, "rmcp error in RAKP2")
       ELSE IF d.lsid # s.localsid THEN w
       ELSE IF ~Rakp2HashOk(s, d)
            THEN onlogon([w EXCEPT !.session.sessioncontext = "FAILED"],
                         "Incorrect password provided")
       ELSE send_rakp3([w EXCEPT !.session.sik = s.randombytes,
                                 !.session.k1 = s.randombytes,
                                 !.session.sessioncontext = "EXPECTINGRAKP4",
                                 !.session.lastpayload = NoPayload], FALSE)

\* The RAKP4 integrity code is keyed with SIK (from Kg and the random numbers)
\* and covers the console's random number and the BMC's session id.
Rakp4CodeOk(s, d) ==
    /\ d.good
    /\ d.rand = s.sik
    /\ d.rand = s.randombytes
    /\ d.psid = s.pendingsessionid

got_rakp4(w, d, jitter) ==
    LET s == w.session
    IN IF s.sessioncontext # "EXPECTINGRAKP4" \/ d.tag # s.rmcptag THEN w
       ELSE IF d.code # RmcpOk
            THEN LET w1 == IF d.code = RmcpInvalidSid /\ s.logontries # 0
                           THEN relog(w, jitter, FALSE) ELSE w
                 IN IF d.code = RmcpFifteen /\ w1.session.logontries # 0 THEN w1
                    ELSE onlogon(w1, "rmcp error reported in RAKP4")
       ELSE IF d.lsid # s.localsid THEN w
       ELSE IF ~Rakp4CodeOk(s, d)
            THEN onlogon(w, "Invalid RAKP4 integrity code (wrong Kg?)")
       ELSE req_priv_level([w EXCEPT !.session.sessionid = s.pendingsessionid,
                                     !.session.integrityalgo = "sha1",
                                     !.session.confalgo = "aes",
                                     !.session.sequencenumber = 1,
                                     !.session.sessioncontext = "ESTABLISHED",
                                     !.session.lastpayload = NoPayload], FALSE)

Unset == -1
\* The highest sequence number, 0xffffffff in the code: here the highest
\* number that TLC's integers hold.
MaxSeqNumber == 2147483647

SolHandlerFrame(p) == [k |-> "solhandler", retry |-> FALSE, rsp |-> p, timers |-> 0]

\* Any inbound SOL payload stands for the last transmission.
SolWasLastTx_always(s) == TRUE

\* if self.last_payload_type == 1: SOL was the last retry-tracked payload.
SolWasLastTx(s) == s.last_payload_type = "sol"

\* _handle_ipmi2_packet.
handle_ipmi2_packet(w, d, jitter) ==
    LET s == w.session
    IN CASE d.ptype = "openrsp" -> got_rmcp_response(w, d)
         [] d.ptype = "rakp2" -> got_rakp2(w, d)
         [] d.ptype = "rakp4" -> got_rakp4(w, d, jitter)
         [] d.ptype \in {"ipmi", "sol"} ->
              IF ~d.integ THEN w
              \* HMAC.new(self.k1, ...) with k1 = None raises
              ELSE IF s.k1 = 0 THEN [w EXCEPT !.obs.raised = TRUE]
              ELSE IF d.key # s.k1 THEN w
              ELSE IF d.lsid # s.localsid THEN w
              ELSE IF /\ s.remseqnumber # Unset
                      /\ d.seq < s.remseqnumber
                      /\ s.remseqnumber # MaxSeqNumber THEN w
              ELSE LET w1 == [w EXCEPT !.session.remseqnumber = d.seq]
                   IN IF d.ptype = "ipmi"
                      THEN parse_ipmi_payload(w1, d.payload, jitter)
                      ELSE LET w2 == [w1 EXCEPT
                                        !.session.lastpayload = NoPayload,
                                        !.session.last_payload_type = "none",
                                        !.waiting_sessions = @ \ {Self}]
                               nxt == Head(s.pendingpayloads)
                               w3 == IF ~SolWasLastTx(s) THEN w1
                                     ELSE IF Len(s.pendingpayloads) = 0 THEN w2
                                     ELSE send_payload(
                                            [w2 EXCEPT !.session.pendingpayloads = Tail(@)],
                                            nxt.payload, nxt.ptype, nxt.retry, FALSE)
                           IN IF ~s.sol_handler THEN w3
                              ELSE IF Suspended(w1, w3)
                                   THEN Beneath(w1, w3, SolHandlerFrame(d.payload))
                                   ELSE got_sol_payload(w3, d.payload)
         [] OTHER -> w

\* _handle_ipmi_packet without its test of the sequence number.
handle_ipmi_packet_unordered(w, d, jitter) ==
    IF d.ver = 15
    THEN LET w1 == [w EXCEPT !.session.remsequencenumber = d.seq]
         IN IF d.authtype # w.session.authtype THEN w1
            ELSE IF d.sid # w.session.sessionid THEN w1
            ELSE IF d.authtype = 2 /\ ~d.good THEN w1
            ELSE parse_ipmi_payload(w1, d.payload, jitter)
    ELSE handle_ipmi2_packet(w, d, jitter)

\* _handle_ipmi_packet: an IPMI 1.5 datagram (authtype 0 or 2) or RMCP+ (6).
handle_ipmi_packet(w, d, jitter) ==
    LET s == w.session
    IN IF d.ver = 15
       THEN IF s.remsequencenumber # Unset /\ d.seq < s.remsequencenumber THEN w
            ELSE LET w1 == [w EXCEPT !.session.remsequencenumber = d.seq]
                 IN IF d.authtype # s.authtype THEN w1
                    ELSE IF d.sid # s.sessionid THEN w1
                    ELSE IF d.authtype = 2 /\ ~d.good THEN w1
                    ELSE parse_ipmi_payload(w1, d.payload, jitter)
       ELSE handle_ipmi2_packet(w, d, jitter)

RouteFrame == [k |-> "route", retry |-> FALSE, rsp |-> 0, timers |-> 0]

\* _route_ipmiresponse: the handler runs, then Session.pending is decremented.
route_ipmiresponse(w, d, jitter) ==
    LET w1 == handle_ipmi_packet(w, d, jitter)
    IN IF Suspended(w, w1)
       THEN Beneath(w, w1, RouteFrame)
       ELSE [w1 EXCEPT !.pending = @ - 1]

\* _timedout, called by the dispatcher once the retry deadline has passed.
\* nowait is set for its duration, so what it sends is transmitted at once.
\* The elif of _timedout: a failed login is retried no more.
Failed(s) == s.sessioncontext = "FAILED"

timedout(w, jitter) ==
    LET s == w.session
    IN IF s.lastpayload = NoPayload THEN w
       ELSE LET w1 == [w EXCEPT !.session.timeout = @ + RetryIncrement]
            IN IF w1.session.timeout > TimeoutLimit
               THEN [InvokeCallback(w1, s.ipmicallback, TimeoutResponse, TRUE)
                        EXCEPT !.session.incommand = FALSE]
               ELSE IF Failed(s) THEN w1
               ELSE IF s.sessioncontext = "OPENSESSION"
                    THEN open_rmcpplus_request(w1, TRUE)
               ELSE IF s.sessioncontext \in {"EXPECTINGRAKP2", "EXPECTINGRAKP4"}
                    THEN relog(w1, jitter, TRUE)
               ELSE send_payload([w1 EXCEPT !.session.hasretried = 1],
                                 NoPayload, "none", TRUE, TRUE)

(* ------------------------------ callers ------------------------------- *)
\* _keepalive: Get Device ID through raw_command, with its defaults.
keepalive(w) ==
    IF w.session.incommand THEN w
    ELSE raw_command(w, NetFnApp, CmdGetDeviceId, TRUE,
                     [fn |-> "generic", cid |-> w.obs.ncmds + 1])

(* --------------------------- the BMC ---------------------------------- *)
ReplyData(v20, md5, sid, iseq) == [v20 |-> v20, md5 |-> md5, sid |-> sid, iseq |-> iseq]
NoData == ReplyData(FALSE, FALSE, 0, 0)

ReplyPayload(seqlun, netfn, cmd, code, data) ==
    [seqlun |-> seqlun, netfn |-> netfn, cmd |-> cmd, code |-> code, data |-> data]
NoReplyPayload == ReplyPayload(0, 0, 0, 0, NoData)

Dgram(ver, authtype, ptype, integ, key, good, sid, lsid, seq, tag, code, psid, rand, payload) ==
    [ver |-> ver, authtype |-> authtype, ptype |-> ptype, integ |-> integ,
     key |-> key, good |-> good, sid |-> sid, lsid |-> lsid, seq |-> seq,
     tag |-> tag, code |-> code, psid |-> psid, rand |-> rand,
     payload |-> payload]

\* The replies a BMC may give to an IPMI request.
IpmiReplies(p) ==
    LET R(code, data) == ReplyPayload(p.seqlun, p.netfn + 1, p.cmd, code, data)
    IN CASE p.cmd = CmdAuthCap ->
              {R(CodeInvalidField, NoData), R(CodeInvalidCommand, NoData)}
              \cup {R(CodeOk, ReplyData(v, m, 0, 0)) :
                      v \in (IF p.data = ProbeV20 THEN BOOLEAN ELSE {FALSE}),
                      m \in BOOLEAN}
         [] p.cmd = CmdChallenge ->
              {R(CodeInvalidCommand, NoData)}
              \cup {R(CodeOk, ReplyData(FALSE, FALSE, i, 0)) : i \in BmcSids}
         [] p.cmd = CmdActivate ->
              {R(CodeInvalidCommand, NoData)}
              \cup {R(CodeOk, ReplyData(FALSE, FALSE, i, 1)) : i \in BmcSids}
         [] p.cmd = CmdActivatePayload ->
              {R(c, NoData) : c \in {CodeOk, CodePayloadActive, CodeSolDisabled,
                                     CodeInvalidCommand}}
         [] OTHER -> {R(CodeOk, NoData), R(CodeInvalidCommand, NoData)}

\* The SOL payloads of a BMC whose payload is active.  It sends console data
\* under its sequence numbers, again with more data when it is not acked, and
\* of a SOL packet f of the console that carries text it says how much it
\* took: all of it, or a part with a NACK, the reason in the flags; the
\* packet that says so may bring data of its own.
SolSeqs == {1, 2}
SolReplies(f) ==
    LET Data(n, l) == [i \in 1..l |-> 10 * n + i]
        D(p) == Dgram(20, 6, "sol", TRUE, f.key, TRUE, f.sid, f.lsid, 2,
                      0, 0, 0, 0, p)
        Flags == {<<FALSE, FALSE, FALSE>>, <<TRUE, FALSE, FALSE>>,
                  <<TRUE, TRUE, FALSE>>, <<TRUE, FALSE, TRUE>>}
    IN {D(SolPacket(n, 0, 0, FALSE, FALSE, FALSE, Data(n, l))) :
          n \in SolSeqs, l \in 1..MaxData}
       \cup (IF f.ptype # "sol" \/ f.payload.hdr[1] = 0 THEN {}
             ELSE {D(SolPacket(n, f.payload.hdr[1], k, g[1], g[2], g[3], Data(n, n))) :
                     n \in {0, 1}, k \in 0..Len(f.payload.text), g \in Flags})

\* The datagrams a BMC may send in answer to a datagram f of the session.
\* profile: "ok", "badpw" (the BMC holds another password), "badkg", or "sol"
\* (an "ok" BMC whose SOL payload is active).
Replies(f, profile) ==
    CASE f.ver = 15 /\ f.ptype = "ipmi" ->
           {Dgram(15, f.authtype, "ipmi", FALSE, 0, profile # "badpw", f.sid, 0,
                  q, 0, 0, 0, 0, r) :
              q \in (IF f.sid = 0 THEN {0} ELSE BmcSeqs),
              r \in IpmiReplies(f.payload)}
      [] f.ver = 20 /\ f.ptype = "ipmi" /\ f.integ ->
           {Dgram(20, 6, "ipmi", TRUE, f.key, TRUE, f.sid, f.lsid, q, 0, 0, 0, 0, r) :
              q \in BmcSeqs \cup {MaxSeqNumber}, r \in IpmiReplies(f.payload)}
             \cup (IF profile = "sol" /\ f.payload.cmd = CmdActivatePayload
                   THEN SolReplies(f) ELSE {})
      [] f.ver = 20 /\ f.ptype = "sol" /\ f.integ /\ profile = "sol" -> SolReplies(f)
      [] f.ver = 20 /\ f.ptype = "rmcpplusopenreq" ->
           {Dgram(20, 6, "openrsp", FALSE, 0, TRUE, 0, f.payload.lsid, 0,
                  f.payload.tag, c, i, 0, NoReplyPayload) :
              c \in {RmcpOk, RmcpOtherError}, i \in BmcSids}
      [] f.ver = 20 /\ f.ptype = "rakp1" ->
           {Dgram(20, 6, "rakp2", FALSE, 0, profile # "badpw", 0, f.payload.lsid,
                  0, f.payload.tag, c, f.payload.psid, f.payload.rand,
                  NoReplyPayload) :
              c \in {RmcpOk, RmcpInvalidSid, RmcpOtherError}}
      [] f.ver = 20 /\ f.ptype = "rakp3" ->
           {Dgram(20, 6, "rakp4", FALSE, 0, profile = "ok", 0, f.payload.lsid,
                  0, f.payload.tag, c, f.payload.psid, f.payload.rand,
                  NoReplyPayload) :
              c \in {RmcpOk, RmcpInvalidSid, RmcpFifteen, RmcpOtherError}}
      [] OTHER -> {}

Inbound == UNION {Replies(wire[i], env.profile) : i \in 1..Len(wire)}

(* ------------------------------ actions ------------------------------- *)
XmitDepth == Cardinality({i \in 1..Len(stack) : stack[i].k = "xmit"})

\* The dispatcher may handle an event: at top level, or inside the
\* wait_for_rsp call of a suspended handler.
Dispatching == XmitDepth <= MaxNest

\* The single wait_for_rsp(timeout=0) call of a suspended _xmit_packet routes
\* the datagrams that have arrived, then runs the keepalive, then the expired
\* deadline.  A caller's loop, at top level or in a synchronous raw_command,
\* calls wait_for_rsp again and again.
InDrain(stk) == stk # <<>> /\ Head(stk).k = "xmit"

DrainAllows(stage) == InDrain(stack) => Head(stack).timers < stage

\* The drain that called the handler w0 -> w1 has reached the given stage.
DrainAt(w0, w1, stage) ==
    IF ~InDrain(w0.stack) THEN w1
    ELSE LET n == Len(w1.stack) - Len(w0.stack)
         IN [w1 EXCEPT !.stack[n + 1].timers = stage]

UserCmds == {CmdGetDeviceId}

\* The caller's code runs: it is not inside the dispatcher.
AtTopLevel == stack = <<>>

\* raw_command without its wait on incommand.
NeverBlocked(s) == FALSE

\* The loop at the head of raw_command: while self.incommand, wait_for_rsp.
Blocked(s) == s.incommand

\* Session.raw_command(netfn, command, retry=..., callback=...) by a caller of
\* an established session.  While incommand is set the call loops in
\* wait_for_rsp and goes no further.
RawCommand ==
    /\ AtTopLevel
    /\ session.logged = 1
    /\ ~Blocked(session)
    /\ obs.ncmds < MaxCmds
    /\ \E cmd \in UserCmds, retry \in BOOLEAN :
          Commit(raw_command(World, NetFnApp, cmd, retry,
                             [fn |-> "user", cid |-> obs.ncmds + 1]))
    /\ UNCHANGED env

\* Session(bmc, userid, password, onlogon=...) again for the same BMC and
\* credentials: __init__ of the existing instance registers the callback.
AddWaiter ==
    /\ AtTopLevel
    /\ obs.nwaiters < MaxWaiters
    /\ LET x == obs.nwaiters + 1
           w1 == [World EXCEPT !.obs.nwaiters = x]
       IN Commit(IF session.logged = 0
                 THEN [w1 EXCEPT !.session.logonwaiters = Append(@, x)]
                 ELSE [w1 EXCEPT !.iterwaiters = Append(@, x)])
    /\ UNCHANGED env

\* The datagrams the BMC answers: MaxTx of them, and MaxSolTx when its SOL
\* payload is active, where it has far more to say to each.
TxBudget == IF env.profile = "sol" THEN MaxSolTx ELSE MaxTx

\* wait_for_rsp reads a datagram from the socket and routes it.  The BMC
\* answers while the session has sent fewer than TxBudget datagrams, and at most
\* MaxStale of the datagrams that arrive are ones the session ignores (it
\* does no more with them than note their sequence number).
Ignored(w0, w1) ==
    /\ w1.stack = w0.stack
    /\ w1.session = [w0.session EXCEPT
                        !.remseqnumber = w1.session.remseqnumber,
                        !.remsequencenumber = w1.session.remsequencenumber]

\* The datagram that took w0 to w1 is handled.
Delivered(w0, w1) ==
    /\ Ignored(w0, w1) => env.stale < MaxStale
    /\ Commit(w1)
    /\ env' = [env EXCEPT !.stale = IF Ignored(w0, w1) THEN @ + 1 ELSE @]

Deliver ==
    /\ Dispatching
    /\ DrainAllows(1)
    /\ obs.ntx - env.base < TxBudget
    /\ \E d \in Inbound, jitter \in TimeoutJitter :
          Delivered(FlushIterwaiters(World),
                    route_ipmiresponse(FlushIterwaiters(World), d, jitter))

\* wait_for_rsp finds the session's retry deadline passed.
Expire ==
    /\ Dispatching
    /\ DrainAllows(2)
    /\ Self \in waiting_sessions
    /\ \E jitter \in TimeoutJitter :
          Commit(DrainAt(World,
                         timedout([FlushIterwaiters(World) EXCEPT
                                      !.pending = @ - 1,
                                      !.waiting_sessions = @ \ {Self}], jitter),
                         2))
    /\ UNCHANGED env

\* wait_for_rsp finds the session's keepalive deadline passed.
Keepalive ==
    /\ Dispatching
    /\ Self \in keepalive_sessions
    /\ ~session.incommand
    /\ obs.ncmds < MaxCmds
    /\ DrainAllows(1)
    /\ Commit(DrainAt(World, keepalive(FlushIterwaiters(World)), 1))
    /\ UNCHANGED env

\* wait_for_rsp with nothing to handle.
IdlePass ==
    /\ iterwaiters # <<>>
    /\ Commit(FlushIterwaiters(World))
    /\ UNCHANGED env

\* The statements that follow a send once it is done, innermost first.
RECURSIVE Unwind(_)
Unwind(w) ==
    IF w.stack = <<>> THEN w
    ELSE LET top == Head(w.stack)
             w1 == [w EXCEPT !.stack = Tail(@)]
         IN CASE top.k = "parsetail" ->
                   LET w2 == ParseTail(w1, top.rsp)
                   IN IF Suspended(w1, w2) THEN w2 ELSE Unwind(w2)
              [] top.k = "route" -> Unwind([w1 EXCEPT !.pending = @ - 1])
              [] top.k = "solhandler" ->
                   LET w2 == got_sol_payload(w1, top.rsp)
                   IN IF Suspended(w1, w2) THEN w2 ELSE Unwind(w2)
              [] top.k = "soltail" ->
                   LET w2 == sol_tail(w1, top.rsp)
                   IN IF Suspended(w1, w2) THEN w2 ELSE Unwind(w2)
              [] OTHER -> w

\* The wait_for_rsp call inside _xmit_packet returns: the datagram goes out.
ResumeXmit ==
    /\ stack # <<>>
    /\ Head(stack).k = "xmit"
    /\ Commit(Unwind(Xmit([World EXCEPT !.stack = Tail(@)], Head(stack).retry)))
    /\ UNCHANGED env

\* A synchronous raw_command returns once its response is stored.
ResumeSync ==
    /\ stack # <<>>
    /\ Head(stack).k = "syncwait"
    /\ session.lastresponse # "None"
    /\ Commit(Unwind([World EXCEPT !.stack = Tail(@)]))
    /\ UNCHANGED env

(* ----------------------- the session registry ---------------------- *)
\* The addresses getaddrinfo gives for a BMC name, in its order.  Two of the
\* names are the same BMC.
Addresses == {1, 2}
BmcNames == {"bmc1", "alias1", "bmc2"}
Resolve(bmc) == IF bmc = "bmc2" THEN <<2>> ELSE <<1>>

UserIds == {1}
Passwords == {1, 2}
\* kg=None is 0.
Kgs == {0, 1}

\* Session.bmc_handlers before any session has transmitted: 0 is no entry.
NoHandlers == [a \in Addresses |-> 0]

\* The arguments of the last Session(...) call and the instance it returned.
Call(bmc, userid, password, kg, returned) ==
    [bmc |-> bmc, userid |-> userid, password |-> password, kg |-> kg,
     returned |-> returned]
NoCall == Call("none", 0, 0, 0, 0)

\* What __init__ sets of a new instance with an onlogon callback, by the
\* attributes __new__ compares; logins counts its calls of login().
Instance(bmc, userid, password, kg, waiter) ==
    [bmc |-> bmc, userid |-> userid, password |-> password, kgo |-> kg,
     logonwaiters |-> <<waiter>>, logged |-> 0, logins |-> 1]

\* __new__ that takes an instance for the caller's whatever its kg.
SameCredentials_any_kg(self, bmc, userid, password, kg) ==
    /\ self.bmc = bmc
    /\ self.userid = userid
    /\ self.password = password

\* The comparison of __new__.
SameCredentials(self, bmc, userid, password, kg) ==
    /\ self.bmc = bmc
    /\ self.userid = userid
    /\ self.password = password
    /\ self.kgo = kg

\* __new__: the instance registered at the first address of the name, if its
\* credentials are the caller's (0 if none is); an instance of other
\* credentials loses its registration at that address.
new(w, bmc, userid, password, kg) ==
    LET sockaddr == Head(Resolve(bmc))
        i == w.bmc_handlers[sockaddr]
    IN IF i = 0 THEN [w |-> w, trueself |-> 0]
       ELSE IF SameCredentials(w.instances[i], bmc, userid, password, kg)
            THEN [w |-> w, trueself |-> i]
            ELSE [w |-> [w EXCEPT !.bmc_handlers[sockaddr] = 0], trueself |-> 0]

\* Session(bmc, userid, password, kg=kg, onlogon=waiter): __new__, then
\* __init__ of what it returned.  The first transmission of login() registers
\* a new instance at every address of the name.
construct(w, bmc, userid, password, kg, waiter) ==
    LET r == new(w, bmc, userid, password, kg)
        n == Len(w.instances) + 1
        w1 == [r.w EXCEPT !.obs.ncalls = @ + 1]
    IN IF r.trueself # 0
       THEN LET w2 == [w1 EXCEPT !.obs.lastcall =
                                  Call(bmc, userid, password, kg, r.trueself)]
            IN IF w.instances[r.trueself].logged = 0
               THEN [w2 EXCEPT !.instances[r.trueself].logonwaiters = Append(@, waiter)]
               ELSE [w2 EXCEPT !.iterwaiters = Append(@, waiter)]
       ELSE [w1 EXCEPT
               !.instances = Append(@, Instance(bmc, userid, password, kg, waiter)),
               !.bmc_handlers = [a \in Addresses |->
                                   IF \E k \in 1..Len(Resolve(bmc)) : Resolve(bmc)[k] = a
                                   THEN n ELSE @[a]],
               !.obs.lastcall = Call(bmc, userid, password, kg, n)]

\* _got_priv_level of instance i with completion code 0: it is logged in and
\* its logon waiters are called.
logged_in(w, i) ==
    [w EXCEPT !.instances[i].logged = 1, !.instances[i].logonwaiters = <<>>]

Construct ==
    /\ obs.ncalls < MaxCalls
    /\ Len(instances) < MaxInstances
    /\ \E bmc \in BmcNames, userid \in UserIds, password \in Passwords, kg \in Kgs :
          Commit(construct(World, bmc, userid, password, kg, obs.ncalls + 1))
    /\ UNCHANGED env

LoggedIn ==
    /\ \E i \in 1..Len(instances) :
          /\ instances[i].logged = 0
          /\ Commit(logged_in(World, i))
    /\ UNCHANGED env

(* --------------------------- specification ---------------------------- *)
\* The attributes before login(); __init__ with an onlogon callback.
NewSession ==
    [incommand |-> FALSE, lastpayload |-> NoPayload, last_payload_type |-> "none",
     pendingpayloads |-> <<>>, logonwaiters |-> <<1>>,
     logontries |-> InitialLogonTries,
     localsid |-> 0, confalgo |-> "none", integrityalgo |-> "none", k1 |-> 0,
     sik |-> 0, rmcptag |-> 0, ipmicallback |-> NoCallback,
     sessioncontext |-> "None", sequencenumber |-> 0, sessionid |-> 0,
     authtype |-> 0, ipmiversion |-> 15, timeout |-> 0, seqlun |-> 0,
     logged |-> 0, tabooseq |-> <<>>, ipmi15only |-> 0,
     expectedcmd |-> NoExpected, expectednetfn |-> NoExpected, hasretried |-> 0,
     randombytes |-> 0, pendingsessionid |-> 0,
     remsequencenumber |-> Unset, remseqnumber |-> Unset,
     netpacket |-> NoPacket, lastresponse |-> "None", sol_handler |-> FALSE]

NewWorld ==
    [session |-> NewSession, waiting_sessions |-> {}, keepalive_sessions |-> {},
     pending |-> 0, iterwaiters |-> <<>>, stack |-> <<>>, wire |-> <<>>,
     nonce |-> 0,
     obs |-> [ntx |-> 0, tx |-> [c \in 1..MaxCmds |-> 0],
              cb |-> [c \in 1..MaxCmds |-> <<>>],
              cmds |-> [c \in 1..MaxCmds |->
                          [retry |-> FALSE, sync |-> FALSE, netfn |-> 0, cmd |-> 0]],
              notified |-> [x \in 1..MaxWaiters |-> <<>>],
              ncmds |-> 0, nwaiters |-> 1, raised |-> FALSE,
              ncalls |-> 0, lastcall |-> NoCall, rakp |-> <<>>],
     bmc_handlers |-> NoHandlers,
     instances |-> <<>>,
     console |-> NoConsole]

\* login(): _initsession, then the first probe.  Nothing can be waiting in
\* the socket for a session that has sent nothing, so the probe goes out.
login(w, jitter) ==
    LET w1 == get_channel_auth_cap(initsession(w, jitter), FALSE)
    IN Xmit([w1 EXCEPT !.stack = Tail(@)], Head(w1.stack).retry)

Init ==
    /\ \E jitter \in TimeoutJitter :
         LET w == login(NewWorld, jitter)
         IN /\ session = w.session
            /\ waiting_sessions = w.waiting_sessions
            /\ keepalive_sessions = w.keepalive_sessions
            /\ pending = w.pending
            /\ iterwaiters = w.iterwaiters
            /\ stack = w.stack
            /\ wire = w.wire
            /\ nonce = w.nonce
            /\ obs = w.obs
            /\ console = w.console
            /\ instances = w.instances
            /\ bmc_handlers = w.bmc_handlers
    /\ env \in [profile : {"ok", "badpw", "badkg"}, stale : {0}, base : {0}]

Next ==
    \/ RawCommand
    \/ AddWaiter
    \/ Deliver
    \/ Expire
    \/ Keepalive
    \/ IdlePass
    \/ ResumeXmit
    \/ ResumeSync

Spec == Init /\ [][Next]_vars

(* ----------------------- an established session ----------------------- *)
\* Every suspended send of w goes out with no event in between.
RECURSIVE Settle(_)
Settle(w) ==
    IF w.stack # <<>> /\ Head(w.stack).k = "xmit"
    THEN Settle(Unwind(Xmit([w EXCEPT !.stack = Tail(@)], Head(w.stack).retry)))
    ELSE w

\* What a BMC that lets the session in answers to each request of login().
Accepts(d, kind) ==
    CASE kind = "refused" -> d.payload.code = CodeInvalidField
      [] kind = "md5" -> d.payload.code = CodeOk /\ d.payload.data.md5
                           /\ ~d.payload.data.v20
      [] kind = "v20" -> d.payload.code = CodeOk /\ d.payload.data.md5
                           /\ d.payload.data.v20
      [] kind = "rmcp" -> d.code = RmcpOk
      [] OTHER -> d.payload.code = CodeOk /\ d.seq <= 1

\* The sessions of S once each has handled, one after the other, the BMC's
\* answers of the given kinds to the datagram it sent last.
RECURSIVE Exchanges(_, _, _)
Exchanges(S, kinds, jitter) ==
    IF kinds = <<>> THEN S
    ELSE Exchanges(
           {Settle(route_ipmiresponse(
                w, CHOOSE d \in Replies(w.session.netpacket, "ok") :
                       Accepts(d, Head(kinds)), jitter)) : w \in S},
           Tail(kinds), jitter)

\* login() against a BMC that refuses the 0x8E probe and offers MD5: the
\* probes, the challenge, the activation, the privilege level.
Login15(jitter) ==
    Exchanges({login(NewWorld, jitter)},
              <<"refused", "md5", "ipmi", "ipmi", "ipmi">>, jitter)

\* login() against a BMC that offers IPMI 2.0: the probe, the open session
\* request, RAKP1, RAKP3, the privilege level.
Login20(jitter) ==
    Exchanges({login(NewWorld, jitter)},
              <<"v20", "rmcp", "rmcp", "rmcp", "ipmi">>, jitter)

\* What login() leaves behind against the first BMC: the session of
\* Login15(jitter), attribute by attribute.
Established15(jitter) ==
    LET F(seq, p) == [lsid |-> InitialLocalSid, ver |-> 15, authtype |-> 2,
                      ptype |-> "ipmi", integ |-> FALSE, sid |-> 1, seq |-> seq,
                      key |-> 0, payload |-> p]
        activate == IpmiPayload(NetFnApp, CmdActivate, 12, 0, 0)
        privlevel == IpmiPayload(NetFnApp, CmdPrivLevel, 16, 0, 0)
    IN [NewWorld EXCEPT
          !.session = [NewSession EXCEPT
              !.localsid = InitialLocalSid, !.rmcptag = 1,
              !.timeout = initialtimeout + jitter,
              !.ipmi15only = 1, !.authtype = 2, !.sessionid = 1,
              !.sequencenumber = 2, !.remsequencenumber = 1, !.seqlun = 20,
              !.ipmicallback = LoginCallback("got_priv_level"),
              !.netpacket = F(1, privlevel),
              !.logged = 1, !.logonwaiters = <<>>],
          !.wire = <<F(0, activate), F(1, privlevel)>>,
          !.keepalive_sessions = {Self},
          !.obs.ntx = 5,
          !.obs.notified[1] = <<"success">>]

\* What login() leaves behind against the second BMC: the session of
\* Login20(jitter).
Established20(jitter) ==
    LET lsid == InitialLocalSid + 1
        F(ptype, integ, sid, seq, p) ==
            [lsid |-> lsid, ver |-> 20, authtype |-> 6, ptype |-> ptype,
             integ |-> integ, sid |-> sid, seq |-> seq, key |-> 1, payload |-> p]
        rakp3 == Payload("rakp3", 0, 0, 0, 0, 0, 4, lsid, 1, 1)
        privlevel == IpmiPayload(NetFnApp, CmdPrivLevel, 4, 0, 0)
    IN [NewWorld EXCEPT
          !.session = [NewSession EXCEPT
              !.localsid = lsid, !.rmcptag = 4,
              !.timeout = initialtimeout + jitter,
              !.ipmiversion = 20, !.authtype = 6, !.pendingsessionid = 1,
              !.randombytes = 1, !.sik = 1, !.k1 = 1, !.sessionid = 1,
              !.integrityalgo = "sha1", !.confalgo = "aes",
              !.sessioncontext = "ESTABLISHED",
              !.sequencenumber = 2, !.remsequencenumber = 0,
              !.remseqnumber = 1, !.seqlun = 8,
              !.ipmicallback = LoginCallback("got_priv_level"),
              !.netpacket = F("ipmi", TRUE, 1, 1, privlevel),
              !.logged = 1, !.logonwaiters = <<>>],
          !.wire = <<F("rakp3", FALSE, 0, 0, rakp3),
                     F("ipmi", TRUE, 1, 1, privlevel)>>,
          !.nonce = 1,
          !.keepalive_sessions = {Self},
          !.obs.ntx = 5,
          !.obs.rakp = <<Payload("rakp1", 0, 0, 0, 0, 0, 3, lsid, 1, 1), rakp3>>,
          !.obs.notified[1] = <<"success">>]

\* The two records are what the handlers compute, with the network holding
\* the answers to the two datagrams sent last.
LatestTwo(w) == [w EXCEPT !.wire = SubSeq(@, Len(@) - 1, Len(@))]

LoginEstablishes ==
    \A jitter \in TimeoutJitter :
       /\ {LatestTwo(w) : w \in Login15(jitter)} = {Established15(jitter)}
       /\ {LatestTwo(w) : w \in Login20(jitter)} = {Established20(jitter)}

\* The session once login has succeeded, on either branch.
InitEstablished ==
    /\ \E jitter \in TimeoutJitter :
         \E w \in {Established15(jitter), Established20(jitter)} :
            /\ session = w.session
            /\ waiting_sessions = w.waiting_sessions
            /\ keepalive_sessions = w.keepalive_sessions
            /\ pending = w.pending
            /\ iterwaiters = w.iterwaiters
            /\ stack = w.stack
            /\ wire = w.wire
            /\ nonce = w.nonce
            /\ obs = w.obs
            /\ console = w.console
            /\ instances = w.instances
            /\ bmc_handlers = w.bmc_handlers
            /\ env = [profile |-> "ok", stale |-> 0, base |-> w.obs.ntx]

SpecEstablished == InitEstablished /\ [][Next]_vars

(* ------------------------------ claims -------------------------------- *)
LastOf(seq) == seq[Len(seq)]

\* C1: at most one retry-tracked request is outstanding.  The session's
\* entry in waiting_sessions stands for the one payload held in lastpayload,
\* and a raw_command issued while lastpayload is set appends its payload to
\* pendingpayloads and transmits nothing: lastpayload, the network and the
\* pending sends are as before.
C1_SingleInFlight ==
    /\ Self \in waiting_sessions => session.lastpayload # NoPayload
    /\ [][/\ Self \in waiting_sessions' => session'.lastpayload # NoPayload
          /\ (obs'.ncmds = obs.ncmds + 1 /\ session.lastpayload # NoPayload)
               => /\ Len(session'.pendingpayloads) = Len(session.pendingpayloads) + 1
                  /\ SubSeq(session'.pendingpayloads, 1, Len(session.pendingpayloads))
                       = session.pendingpayloads
                  /\ LastOf(session'.pendingpayloads).payload.cid = obs'.ncmds
                  /\ session'.lastpayload = session.lastpayload
                  /\ obs'.ntx = obs.ntx
                  /\ wire' = wire
                  /\ XmitDepth' = XmitDepth]_vars

\* A command waits in the queue behind the request in flight.
C1_Queued ==
    /\ session.lastpayload # NoPayload
    /\ Len(session.pendingpayloads) > 0
    /\ session.pendingpayloads[1].payload.cid > 0
    /\ session.pendingpayloads[1].payload.cid # session.lastpayload.cid

\* C2: commands complete in submission order.  For commands i before j, j's
\* request is not transmitted and j's callback is not invoked before i's
\* callback has been invoked, with a reply or an error.
C2_SubmissionOrder ==
    \A i, j \in 1..MaxCmds :
       (i < j /\ (obs.tx[j] > 0 \/ obs.cb[j] # <<>>)) => obs.cb[i] # <<>>

\* The second command is on the network after the first has completed.
C2_SecondAfterFirst ==
    /\ obs.cb[1] = <<"reply">>
    /\ obs.tx[1] > 0
    /\ obs.tx[2] > 0

\* C3: the expiry that raises the timeout above the limit delivers the
\* timeout error to the command's callback and clears the in-flight state:
\* lastpayload unset, incommand false, no entry in waiting_sessions.
C3_TimeoutClearsInFlight ==
    [][\A c \in 1..MaxCmds :
         (Len(obs'.cb[c]) > Len(obs.cb[c]) /\ LastOf(obs'.cb[c]) = "timeout")
            => /\ session'.lastpayload = NoPayload
               /\ ~session'.incommand
               /\ Self \notin waiting_sessions']_vars

\* C3, its consequence: a raw_command issued once the timeout error has been
\* delivered is sent, not left in the pending queue.
C3_NextCommandIsSent ==
    [][(/\ obs'.ncmds = obs.ncmds + 1
        /\ obs.ncmds > 0
        /\ obs.cb[obs.ncmds] # <<>>
        /\ LastOf(obs.cb[obs.ncmds]) = "timeout")
          => /\ session'.pendingpayloads = session.pendingpayloads
             /\ XmitDepth' = XmitDepth + 1]_vars

\* C4: on a logged-in session a retried command is sent again, with the same
\* payload, by every expiry that leaves the timeout at or under the limit: at
\* most 4 times after the first.  The expiry that takes the timeout over the
\* limit delivers the timeout error to the callback and sends nothing, and
\* the command is never sent after that.
C4_BoundedRetries ==
    [][/\ \A c \in 1..MaxCmds : obs'.tx[c] <= 1 + 4
       /\ \A c \in 1..MaxCmds :
            (obs.cb[c] # <<>> /\ LastOf(obs.cb[c]) = "timeout")
               => obs'.tx[c] = obs.tx[c]
       /\ (/\ session'.timeout = session.timeout + RetryIncrement
           /\ session.lastpayload.cid > 0)
            => LET c == session.lastpayload.cid
               IN IF session'.timeout <= TimeoutLimit
                  THEN /\ session'.lastpayload = session.lastpayload
                       /\ session'.netpacket.payload = session.lastpayload
                       /\ obs'.tx[c] = obs.tx[c] + 1
                       /\ obs'.cb = obs.cb
                       /\ Self \in waiting_sessions'
                  ELSE /\ obs'.tx = obs.tx
                       /\ obs'.ntx = obs.ntx
                       /\ obs'.cb[c] = Append(obs.cb[c], "timeout")
                       /\ Self \notin waiting_sessions']_vars

\* C5: the callback of a raw_command is invoked at most once.
C5_CallbackAtMostOnce ==
    \A c \in 1..MaxCmds : Len(obs.cb[c]) <= 1


InSeq(seq, x) == \E i \in 1..Len(seq) : seq[i] = x

\* C6: once the login state is FAILED it stays FAILED, the session puts no
\* further datagram on the network, and no command callback is invoked with a
\* reply, whatever expiry or datagram is handled.
C6_FailedIsSilent ==
    [][session.sessioncontext = "FAILED"
         => /\ session'.sessioncontext = "FAILED"
            /\ obs'.ntx = obs.ntx
            /\ obs'.tx = obs.tx
            /\ wire' = wire
            /\ \A c \in 1..MaxCmds :
                 obs'.cb[c] # obs.cb[c] => LastOf(obs'.cb[c]) # "reply"]_vars

\* C7: the step that finds the RAKP2 HMAC wrong puts the session in FAILED,
\* and no other step reports a wrong password; every logon waiter registered
\* then is called with 'Incorrect password provided', its first and only
\* logon notification, and is registered no more; a waiter that has been told
\* so is never notified again.
C7_IncorrectPasswordOnce ==
    /\ \A x \in 1..MaxWaiters : obs.notified[x] = <<>>
    /\ [][/\ (\E x \in 1..MaxWaiters :
                /\ obs'.notified[x] # obs.notified[x]
                /\ LastOf(obs'.notified[x]) = "Incorrect password provided")
             => (/\ session.sessioncontext # "FAILED"
                 /\ session'.sessioncontext = "FAILED")
          /\ (session.sessioncontext # "FAILED" /\ session'.sessioncontext = "FAILED")
               => /\ session'.logonwaiters = <<>>
                  /\ \A x \in 1..MaxWaiters :
                       obs'.notified[x] =
                          IF InSeq(session.logonwaiters, x)
                          THEN <<"Incorrect password provided">>
                          ELSE obs.notified[x]
          /\ \A x \in 1..MaxWaiters :
               InSeq(obs.notified[x], "Incorrect password provided")
                  => obs'.notified[x] = obs.notified[x]]_vars

\* Two waiters have been told of the wrong password, and the retry deadline
\* of RAKP1 has passed since.
C7_BothWaitersTold ==
    /\ session.sessioncontext = "FAILED"
    /\ \A x \in 1..2 : obs.notified[x] = <<"Incorrect password provided">>
    /\ Self \notin waiting_sessions

\* C8: a RAKP4 whose integrity code does not verify is reported to the logon
\* waiters as 'Invalid RAKP4 integrity code (wrong Kg?)' and leaves the
\* session in login state FAILED.
C8_Rakp4MismatchFails ==
    [][(\E x \in 1..MaxWaiters :
          /\ obs'.notified[x] # obs.notified[x]
          /\ LastOf(obs'.notified[x]) = "Invalid RAKP4 integrity code (wrong Kg?)")
         => session'.sessioncontext = "FAILED"]_vars

\* C8, its second half: once the waiters have been told of the RAKP4
\* mismatch the session starts no login again.
C8_NoReloginAfterMismatch ==
    [][(\E x \in 1..MaxWaiters :
          /\ obs.notified[x] # <<>>
          /\ LastOf(obs.notified[x]) = "Invalid RAKP4 integrity code (wrong Kg?)")
         => session'.logontries = session.logontries]_vars

PrivLevelExpected(s) ==
    s.expectedcmd = CmdPrivLevel /\ s.expectednetfn = NetFnApp + 1

IsProbe(p, version) ==
    p # NoPayload /\ p.pt = "ipmi" /\ p.cmd = CmdAuthCap /\ p.data = version

\* C10: the probe phase ends: the reply to a 0x0E probe is never followed by
\* another 0x0E probe.
C10_ProbeTerminates ==
    [][~(/\ IsProbe(session.lastpayload, ProbeV15)
         /\ IsProbe(session'.lastpayload, ProbeV15)
         /\ session'.lastpayload.seqlun # session.lastpayload.seqlun)]_vars

\* C11: the login never stalls: while a logon waiter is registered and no
\* waiter has been notified, a request of the session is outstanding (the
\* session is in waiting_sessions) or a send of it is in progress.
C11_LoginNeverStalls ==
    ~(/\ session.logonwaiters # <<>>
      /\ \A x \in 1..MaxWaiters : obs.notified[x] = <<>>
      /\ Self \notin waiting_sessions
      /\ stack = <<>>)

\* An RMCP+ IPMI or SOL datagram that passes the checks made before its
\* sequence number is looked at.
Authentic20(s, d) ==
    /\ d.ver = 20
    /\ d.ptype \in {"ipmi", "sol"}
    /\ d.integ
    /\ s.k1 # 0
    /\ d.key = s.k1
    /\ d.lsid = s.localsid

\* A datagram the network may deliver whose sequence number is lower than
\* the last one seen is dropped by its handler, but for an RMCP+ datagram
\* that follows 0xFFFFFFFF, whose number is taken.
OlderDropped ==
    \A d \in Inbound, j \in TimeoutJitter :
       /\ (/\ d.ver = 15
           /\ session.remsequencenumber # Unset
           /\ d.seq < session.remsequencenumber)
            => handle_ipmi_packet(World, d, j) = World
       /\ (/\ Authentic20(session, d)
           /\ session.remseqnumber # Unset
           /\ d.seq < session.remseqnumber)
            => IF session.remseqnumber # MaxSeqNumber
               THEN handle_ipmi_packet(World, d, j) = World
               ELSE handle_ipmi_packet(World, d, j).session.remseqnumber = d.seq

\* C12: the last inbound sequence number of a session never decreases, in
\* IPMI 1.5 without exception and in RMCP+ unless the last one seen is
\* 0xFFFFFFFF; a datagram with a lower number is dropped.
C12_SequenceMonotone ==
    /\ []OlderDropped
    /\ [][/\ session.remsequencenumber # Unset
               => session'.remsequencenumber >= session.remsequencenumber
          /\ (session.remseqnumber # Unset /\ session.remseqnumber # MaxSeqNumber)
               => session'.remseqnumber >= session.remseqnumber]_vars

\* The session has taken number 0xFFFFFFFF from an RMCP+ datagram, and a
\* datagram with a lower number is on its way.
C12_AtWrap ==
    /\ session.remseqnumber = MaxSeqNumber
    /\ \E d \in Inbound : Authentic20(session, d) /\ d.seq < MaxSeqNumber

\* What a datagram of the BMC becomes when it fails one of the three checks
\* made of an RMCP+ IPMI or SOL datagram: no integrity bit, another key under
\* its authentication code, another session id.
Forgeries(d) ==
    {[d EXCEPT !.integ = FALSE], [d EXCEPT !.key = @ + 1], [d EXCEPT !.lsid = @ + 1]}

\* C13: an RMCP+ IPMI or SOL datagram without the integrity bit, with an
\* authentication code that does not verify or with a session id other than
\* localsid is discarded: routing it changes nothing of the session or of
\* the process-wide state, and calls nothing back.
C13_DiscardedWithoutEffect ==
    \A d \in Inbound, j \in TimeoutJitter :
       (d.ver = 20 /\ d.ptype \in {"ipmi", "sol"})
          => \A f \in Forgeries(d) : route_ipmiresponse(World, f, j) = World

\* What an IPMI 1.5 datagram of the BMC becomes when it fails one of the
\* three checks made after its sequence number: another authentication
\* type, another session id, an authentication code that does not verify.
Forgeries15(d) ==
    {[d EXCEPT !.authtype = 2 - @], [d EXCEPT !.sid = @ + 1]}
      \cup (IF d.authtype = 2 THEN {[d EXCEPT !.good = FALSE]} ELSE {})

\* C14: an IPMI 1.5 datagram dropped for its authentication type, its
\* session id or its authentication code leaves the session such that a
\* reply of the BMC handled after it is handled as it would have been
\* without it.
C14_DroppedLeavesSession ==
    \A d \in Inbound, j \in TimeoutJitter :
       d.ver = 15 =>
          \A f \in Forgeries15(d) :
             LET w1 == handle_ipmi_packet(World, f, j)
             IN \A v \in Inbound :
                   v.ver = 15 =>
                      handle_ipmi_packet(w1, v, j) = handle_ipmi_packet(World, v, j)

\* The request in flight is the Get Device ID of _keepalive.
KeepaliveInFlight ==
    /\ session.lastpayload # NoPayload
    /\ session.lastpayload.netfn = NetFnApp
    /\ session.lastpayload.cmd = CmdGetDeviceId
    /\ session.ipmicallback.fn = "generic"

\* C16: the Get Device ID of a keepalive is sent with retry=false: while it
\* is in flight the session is not in waiting_sessions, so that it is never
\* retransmitted.
C16_KeepaliveNotRetried ==
    KeepaliveInFlight => Self \notin waiting_sessions

(* ------------------------ the constructor ----------------------------- *)
\* Sessions are constructed, found again and logged in; what each instance
\* does on the network is the matter of Spec.
InitRegistry ==
    /\ session = NewWorld.session
    /\ waiting_sessions = {}
    /\ keepalive_sessions = {}
    /\ pending = 0
    /\ iterwaiters = <<>>
    /\ stack = <<>>
    /\ wire = <<>>
    /\ nonce = 0
    /\ obs = NewWorld.obs
    /\ instances = <<>>
    /\ bmc_handlers = NoHandlers
    /\ console = NoConsole
    /\ env = [profile |-> "ok", stale |-> 0, base |-> 0]

NextRegistry ==
    \/ Construct
    \/ LoggedIn

SpecRegistry == InitRegistry /\ [][NextRegistry]_vars

\* C15: a Session(...) call for an address where an instance of the same
\* bmc, userid, password and kg is registered returns that instance, which
\* is as it was but for the caller's callback: no instance is created, the
\* registry is unchanged and login() is not called again.  A call with other
\* credentials, or for an address where nothing is registered, returns a new
\* instance, which takes the registration at that address.
C15_ConstructorFindsInstance ==
    [][obs'.ncalls # obs.ncalls =>
         LET c == obs'.lastcall
             sockaddr == Head(Resolve(c.bmc))
             i == bmc_handlers[sockaddr]
             same == /\ i # 0
                     /\ instances[i].bmc = c.bmc
                     /\ instances[i].userid = c.userid
                     /\ instances[i].password = c.password
                     /\ instances[i].kgo = c.kg
         IN IF same
            THEN /\ c.returned = i
                 /\ bmc_handlers' = bmc_handlers
                 /\ instances' = [instances EXCEPT
                                    ![i].logonwaiters = instances'[i].logonwaiters]
                 /\ \/ /\ instances[i].logged = 0
                       /\ instances'[i].logonwaiters
                            = Append(instances[i].logonwaiters, obs'.ncalls)
                       /\ iterwaiters' = iterwaiters
                    \/ /\ instances[i].logged = 1
                       /\ instances'[i].logonwaiters = instances[i].logonwaiters
                       /\ iterwaiters' = Append(iterwaiters, obs'.ncalls)
            ELSE /\ c.returned = Len(instances) + 1
                 /\ instances' = Append(instances,
                                   Instance(c.bmc, c.userid, c.password, c.kg, obs'.ncalls))
                 /\ bmc_handlers'[sockaddr] = c.returned]_vars

\* An instance has lost its registration to one of other credentials, which
\* a later call with those credentials has found again.
C15_EvictedThenFound ==
    /\ Len(instances) = 2
    /\ bmc_handlers[1] = 2
    /\ instances[1].bmc = instances[2].bmc
    /\ instances[1].password # instances[2].password
    /\ Len(instances[2].logonwaiters) = 2

(* ----------------------------- the console ---------------------------- *)
\* Console.send_data(data) by the caller: two bytes that tell which call
\* they are of.
SendData ==
    /\ AtTopLevel
    /\ console.nsent < MaxSends
    /\ session.sol_handler
    /\ LET k == 100 * (console.nsent + 1)
       IN Commit(send_data(World, <<k + 1, k + 2>>))
    /\ UNCHANGED env

\* A Console whose session has just logged in over RMCP+: _got_priv_level
\* has called the logon waiter, Console._got_session, which is sending
\* Activate Payload; _route_ipmiresponse has yet to count the reply.
InitConsole ==
    /\ \E jitter \in TimeoutJitter, force \in BOOLEAN :
         LET w0 == [Established20(jitter) EXCEPT !.console = NewConsole(force),
                                                 !.pending = @ + 1]
             w == Beneath(w0, got_session(w0, Response("", 0, 0, 0, 0)), RouteFrame)
         IN /\ session = w.session
            /\ waiting_sessions = w.waiting_sessions
            /\ keepalive_sessions = w.keepalive_sessions
            /\ pending = w.pending
            /\ iterwaiters = w.iterwaiters
            /\ stack = w.stack
            /\ wire = w.wire
            /\ nonce = w.nonce
            /\ obs = w.obs
            /\ instances = w.instances
            /\ bmc_handlers = w.bmc_handlers
            /\ console = w.console
            /\ env = [profile |-> "ok", stale |-> 0, base |-> w.obs.ntx]

NextConsole ==
    \/ SendData
    \/ Deliver
    \/ Expire
    \/ ResumeXmit

SpecConsole == InitConsole /\ [][NextConsole]_vars

(* --------------------- the console, SOL payload active ---------------- *)
\* What Console() leaves behind once the BMC has activated the payload: the
\* session of Established20(jitter) after _got_session and _payload_activated.
SolActive(jitter, force) ==
    LET w == Established20(jitter)
        activate == [w.session.netpacket EXCEPT
                       !.seq = 2,
                       !.payload = IpmiPayload(NetFnApp, CmdActivatePayload, 8, 0, 1)]
    IN [w EXCEPT
          !.console = NewConsole(force),
          !.session.sequencenumber = 3,
          !.session.seqlun = 12,
          !.session.netpacket = activate,
          !.session.ipmicallback = [cid |-> 1, fn |-> "payload_activated"],
          !.session.sol_handler = TRUE,
          !.wire = Append(@, activate),
          !.obs.ntx = 6,
          !.obs.cb[1] = <<"reply">>,
          !.obs.tx[1] = 1,
          !.obs.ncmds = 1,
          !.obs.nwaiters = 1,
          !.obs.cmds[1] = [netfn |-> NetFnApp, cmd |-> CmdActivatePayload,
                           retry |-> TRUE, sync |-> FALSE]]

\* The record is what the handlers compute.
ActivationEstablishes ==
    \E jitter \in TimeoutJitter : World = SolActive(jitter, console.force_session)

InitSol ==
    /\ \E jitter \in TimeoutJitter :
         LET w == SolActive(jitter, FALSE)
         IN /\ session = w.session
            /\ waiting_sessions = w.waiting_sessions
            /\ keepalive_sessions = w.keepalive_sessions
            /\ pending = w.pending
            /\ iterwaiters = w.iterwaiters
            /\ stack = w.stack
            /\ wire = w.wire
            /\ nonce = w.nonce
            /\ obs = w.obs
            /\ instances = w.instances
            /\ bmc_handlers = w.bmc_handlers
            /\ console = w.console
            /\ env = [profile |-> "sol", stale |-> 0, base |-> w.obs.ntx]

SpecSol == InitSol /\ [][NextConsole]_vars

(* ------------------------ claims on the console ----------------------- *)
\* The SOL payloads the BMC may send now.
InboundSol == {d.payload : d \in {x \in Inbound : x.ptype = "sol"}}

\* C17: a SOL packet that repeats the remote sequence number accepted last
\* gives the consumer the data past its first lastsize bytes when it has more
\* than lastsize bytes of data, and nothing when it has no more.
C17_RetransmitGivesNewBytes ==
    \A p \in InboundSol :
       (p.newseq # 0 /\ p.newseq = console.remseq)
          => got_sol_payload(World, p).console.printed =
                IF Len(p.data) > console.lastsize
                THEN Slice(p.data, console.lastsize)
                ELSE <<>>

\* A SOL payload of the console that only acks: its sequence number is 0.
IsAck(payload) == payload.pt = "sol" /\ payload.hdr[1] = 0

\* send_payload(a, payload_type=1, retry=False) was called in w0 and gave w1:
\* the payload is queued behind the outstanding one, or it is the datagram
\* that a _xmit_packet(retry=False) is about to send.
Submitted(w0, w1, a) ==
    LET q0 == w0.session.pendingpayloads
        q1 == w1.session.pendingpayloads
    IN IF w0.session.lastpayload # NoPayload
       THEN /\ Len(q1) > Len(q0)
            /\ q1[Len(q0) + 1] = [payload |-> a, ptype |-> "sol", retry |-> FALSE]
       ELSE /\ Suspended(w0, w1)
            /\ Head(w1.stack) = XmitFrame(FALSE)
            /\ w1.session.netpacket.payload = a
            /\ w1.session.lastpayload = NoPayload

\* No ack was submitted between w0 and w1.
NoAckSubmitted(w0, w1) ==
    LET q0 == w0.session.pendingpayloads
        q1 == w1.session.pendingpayloads
    IN /\ \A i \in (Len(q0) + 1)..Len(q1) : ~IsAck(q1[i].payload)
       /\ Suspended(w0, w1) => ~IsAck(w1.session.netpacket.payload)

\* C18: _got_sol_payload submits the ack (0, remseq, length of the data, 0)
\* with retry=False for a SOL packet whose sequence number is not 0, and no
\* ack for one whose sequence number is 0; the payload the session retries is
\* never an ack, and a queued ack is queued with retry=False.
C18_AckNotRetried ==
    /\ ~IsAck(session.lastpayload)
    /\ \A i \in 1..Len(session.pendingpayloads) :
          IsAck(session.pendingpayloads[i].payload)
             => ~session.pendingpayloads[i].retry
    /\ \A p \in InboundSol :
          LET w1 == got_sol_payload(World, p)
          IN IF p.newseq # 0
             THEN Submitted(World, w1,
                            SolPayload(0, w1.console.remseq, Len(p.data), 0, <<>>))
             ELSE NoAckSubmitted(World, w1)

\* An ack went out while the console's data is the payload that is retried.
C18_AckBesideData ==
    /\ \E i \in 1..Len(wire) : IsAck(wire[i].payload)
    /\ session.lastpayload.pt = "sol"
    /\ Self \in waiting_sessions

\* The sequence number _sendpendingoutput gives the packet after number n.
NextMyseq(n) == IF n = 15 THEN 1 ELSE n + 1

\* The bytes of text that follow its first k bytes.
After(text, k) == [i \in 1..(Len(text) - k) |-> text[i + k]]

\* send_payload(a, payload_type=1) was called once in w0 and gave w1.
SubmittedOnce(w0, w1, a) ==
    LET q0 == w0.session.pendingpayloads
        q1 == w1.session.pendingpayloads
    IN IF w0.session.lastpayload # NoPayload
       THEN /\ q1 = Append(q0, [payload |-> a, ptype |-> "sol", retry |-> TRUE])
            /\ w1.stack = w0.stack
            /\ w1.session.netpacket = w0.session.netpacket
       ELSE /\ w1.stack = <<XmitFrame(TRUE)>> \o w0.stack
            /\ w1.session.netpacket.payload = a
            /\ w1.session.lastpayload = a
            /\ q1 = q0

\* C19: for a NACK of the outstanding SOL packet (ackseq = myseq, the NACK
\* bit set) whose deactivated bit is clear, with ackcount k, _got_sol_payload
\* submits one new packet with the next myseq, whose data is the data of the
\* NACKed packet past its first k bytes followed by pendingoutput, and
\* empties pendingoutput; when the deactivated bit is set it sends nothing.
C19_NackResendsTail ==
    \A p \in InboundSol :
       (console.myseq # 0 /\ p.ackseq = console.myseq /\ p.nacked)
          => LET w1 == sol_tail(World, p)
                 a == SolPayload(NextMyseq(console.myseq), console.ackedseq,
                                 console.ackedseq, console.sendbreak,
                                 After(console.lastpayload.text, p.ackcount)
                                    \o console.pendingoutput)
             IN IF p.deactivated
                THEN /\ w1.session = session
                     /\ w1.stack = stack
                     /\ w1.wire = wire
                     /\ w1.console.myseq = console.myseq
                     /\ w1.console.pendingoutput = console.pendingoutput
                ELSE /\ w1.console.myseq = NextMyseq(console.myseq)
                     /\ w1.console.lastpayload = a
                     /\ w1.console.pendingoutput = <<>>
                     /\ SubmittedOnce(World, w1, a)

\* The BMC took one byte of the first packet and NACKed the rest while the
\* second send_data waited: the second packet went out with both.
C19_TailAndPendingSent ==
    /\ console.myseq = 2
    /\ console.lastpayload.text = <<102, 201, 202>>
    /\ console.pendingoutput = <<>>
    /\ \E i \in 1..Len(wire) : wire[i].payload = console.lastpayload

\* The commands issued so far, in order.
CmdsIssued == [i \in 1..obs.ncmds |-> obs.cmds[i].cmd]

PrefixOf(a, b) == Len(a) <= Len(b) /\ a = SubSeq(b, 1, Len(a))

\* The reply a BMC gives to the outstanding command, with a completion code.
ReplyTo(cmd, code) == Response("", NetFnApp + 1, cmd, code, NoData)

\* C20: a forced Console answers the first completion code 0x80 of Activate
\* Payload with one Deactivate Payload, and the reply to that with one more
\* Activate Payload; a second 0x80, and any 0x80 when the session is not
\* forced, is printed and nothing is sent.  So the commands of a forced
\* Console are at most Activate, Deactivate, Activate, and those of another
\* the one Activate.
C20_DeactivateOnce ==
    /\ (session.incommand /\ session.ipmicallback.fn = "payload_activated")
          => LET w1 == ParseTail(World, ReplyTo(CmdActivatePayload, CodePayloadActive))
             IN IF console.force_session /\ console.retriedpayload = 0
                THEN /\ w1.obs.ncmds = obs.ncmds + 1
                     /\ w1.obs.cmds[obs.ncmds + 1].cmd = CmdDeactivatePayload
                     /\ w1.session.ipmicallback.fn = "got_session"
                     /\ w1.console.retriedpayload = 1
                ELSE /\ w1.obs.ncmds = obs.ncmds
                     /\ w1.stack = stack
                     /\ w1.session.netpacket = session.netpacket
                     /\ w1.console.said = "SOL Session active for another client"
    /\ (session.incommand /\ session.ipmicallback.fn = "got_session")
          => \A code \in {CodeOk, CodeInvalidCommand} :
                LET w1 == ParseTail(World, ReplyTo(CmdDeactivatePayload, code))
                IN /\ w1.obs.ncmds = obs.ncmds + 1
                   /\ w1.obs.cmds[obs.ncmds + 1].cmd = CmdActivatePayload
                   /\ w1.session.ipmicallback.fn = "payload_activated"
    /\ PrefixOf(CmdsIssued,
                IF console.force_session
                THEN <<CmdActivatePayload, CmdDeactivatePayload, CmdActivatePayload>>
                ELSE <<CmdActivatePayload>>)
    /\ (console.retriedpayload = 1) = (CmdDeactivatePayload \in
                                         {CmdsIssued[i] : i \in 1..obs.ncmds})

\* The forced Console deactivated the payload, activated it again, and was
\* told once more that it is active elsewhere.
C20_SecondRefusalReported ==
    /\ console.force_session
    /\ CmdsIssued = <<CmdActivatePayload, CmdDeactivatePayload, CmdActivatePayload>>
    /\ console.said = "SOL Session active for another client"
    /\ ~session.incommand

(* ------------------------ claims on the RMCP+ login ------------------- *)
\* The login state in which a response of the RMCP+ login is due.
DueIn(ptype) ==
    CASE ptype = "openrsp" -> "OPENSESSION"
      [] ptype = "rakp2" -> "EXPECTINGRAKP2"
      [] ptype = "rakp4" -> "EXPECTINGRAKP4"

\* The login states are entered in their order, ESTABLISHED along with the
\* keys that the verified RAKP2 and RAKP4 gave.
InLoginOrder ==
    /\ (session'.sessioncontext = "EXPECTINGRAKP2" /\ session.sessioncontext # "EXPECTINGRAKP2")
          => session.sessioncontext = "OPENSESSION"
    /\ (session'.sessioncontext = "EXPECTINGRAKP4" /\ session.sessioncontext # "EXPECTINGRAKP4")
          => session.sessioncontext = "EXPECTINGRAKP2"
    /\ (session'.sessioncontext = "ESTABLISHED" /\ session.sessioncontext # "ESTABLISHED")
          => /\ session.sessioncontext = "EXPECTINGRAKP4"
             /\ session.sik = session.randombytes
             /\ session'.sessionid = session.pendingsessionid
             /\ env.profile = "ok"

\* The responses the BMC may send, and those of them that come with the tag
\* the session has now: the answer to a request of an earlier attempt that
\* bore that tag.
Retagged == {[d EXCEPT !.tag = session.rmcptag] : d \in Inbound}

\* The session goes through the login states in their order.
LoginOrderKept == [][InLoginOrder]_vars

\* C24: an open-session response, a RAKP2 or a RAKP4 that arrives in another
\* login state than the one it is due in, or with a tag or a local session id
\* that is not the current attempt's, changes no state.
C24_UndueResponseChangesNothing ==
    \A d \in Inbound \cup Retagged, jitter \in TimeoutJitter :
       (/\ d.ptype \in {"openrsp", "rakp2", "rakp4"}
        /\ \/ session.sessioncontext # DueIn(d.ptype)
           \/ d.tag # session.rmcptag
           \/ d.lsid # session.localsid)
          => handle_ipmi2_packet(World, d, jitter) = World

\* wait_for_rsp finds the session's retry deadline passed: what it leaves.
Expired(jitter) ==
    timedout([World EXCEPT !.pending = @ - 1, !.waiting_sessions = @ \ {Self}],
             jitter)

\* C25: when the retry deadline passes in OPENSESSION with retries left, an
\* open-session request with the next tag and the next local session id is
\* transmitted and the session is in waiting_sessions again.
C25_OpenSessionRetried ==
    \A jitter \in TimeoutJitter :
       (/\ Self \in waiting_sessions
        /\ session.sessioncontext = "OPENSESSION"
        /\ session.lastpayload # NoPayload
        /\ session.timeout + RetryIncrement <= TimeoutLimit)
          => LET w1 == Expired(jitter)
             IN /\ w1.obs.ntx = obs.ntx + 1
                /\ LastOf(w1.wire).ptype = "rmcpplusopenreq"
                /\ LastOf(w1.wire).payload.tag = session.rmcptag + 1
                /\ LastOf(w1.wire).payload.lsid = session.localsid + 1
                /\ Self \in w1.waiting_sessions

\* C26: when the retry deadline passes in EXPECTINGRAKP2 or EXPECTINGRAKP4,
\* the login starts again: Get Channel Authentication Capabilities is
\* transmitted and the session is in waiting_sessions for it.
C26_RakpExpiryRestartsLogin ==
    \A jitter \in TimeoutJitter :
       (/\ Self \in waiting_sessions
        /\ session.sessioncontext \in {"EXPECTINGRAKP2", "EXPECTINGRAKP4"}
        /\ session.lastpayload # NoPayload
        /\ session.timeout + RetryIncrement <= TimeoutLimit)
          => LET w1 == Expired(jitter)
             IN /\ w1.obs.ntx = obs.ntx + 1
                /\ LastOf(w1.wire).ptype = "ipmi"
                /\ LastOf(w1.wire).payload.cmd = CmdAuthCap
                /\ Self \in w1.waiting_sessions

C28_RetriedSeqlunSkipped ==
    [][(session.hasretried # 0 /\ session'.hasretried = 0)
          => LET netfn == session.expectednetfn - 1
                 cmd == session.expectedcmd
                 s == session.seqlun
                 r == TabooSkip(session'.tabooseq, netfn, cmd, s, MaxSeqIncrement)
             IN /\ ~r.raised
                /\ r.seqlun = (s + 4) % 256]_vars

\* C29: a command built after one that ended in a timeout carries the
\* seqlun after the timed-out command's, four higher modulo 256, with the
\* LUN bits 0.
C29_SeqlunAdvancesPastTimeout ==
    \A jitter \in TimeoutJitter, cmd \in UserCmds :
       (/\ Self \in waiting_sessions
        /\ session.logged = 1
        /\ session.lastpayload.pt = "ipmi"
        /\ session.timeout + RetryIncrement > TimeoutLimit)
          => LET w1 == Expired(jitter)
                 m == make_ipmi_payload(w1, NetFnApp, cmd, 0, 1)
             IN /\ m.payload.seqlun = (session.lastpayload.seqlun + 4) % 256
                /\ m.payload.seqlun % 4 = 0

\* The IPMI payloads that may come in: the BMC's replies to what is on the
\* wire, and the same with another seqlun, netfn or cmd.
InboundIpmi ==
    LET honest == {d.payload : d \in {x \in Inbound : x.ptype = "ipmi"}}
    IN honest \cup {[p EXCEPT !.seqlun = (@ + 4) % 256] : p \in honest}
              \cup {[p EXCEPT !.netfn = @ + 4] : p \in honest}
              \cup {[p EXCEPT !.cmd = CmdAuthCap] : p \in honest}

Mismatch(p) ==
    \/ p.seqlun # session.seqlun
    \/ p.netfn # session.expectednetfn
    \/ p.cmd # session.expectedcmd

\* C30: _parse_ipmi_payload with a payload whose seqlun, netfn or cmd is not
\* the outstanding request's changes nothing: no session state, no callback
\* invoked, the request still in flight with its timer and pending queue.
C30_MismatchDropped ==
    \A p \in InboundIpmi, jitter \in TimeoutJitter :
       Mismatch(p) => parse_ipmi_payload(World, p, jitter) = World

\* A payload with the outstanding request's seqlun and another cmd comes in
\* while the request is in flight.
C30_MismatchWhileInFlight ==
    /\ Self \in waiting_sessions
    /\ session.lastpayload.pt = "ipmi"
    /\ session.incommand
    /\ \E p \in InboundIpmi : p.seqlun = session.seqlun /\ p.cmd # session.expectedcmd

(* ------------------- claims on the dispatcher's calls ------------------ *)
NoTimeout == "None"
Timeouts == {NoTimeout, "0", "1"}

\* The pass that reports the sessions waiting when it was called.
wait_for_rsp_count_on_entry(w, timeout, due, jitter) ==
    LET w1 == FlushIterwaiters(w)
        w2 == IF due /\ Self \in w1.waiting_sessions
              THEN timedout([w1 EXCEPT !.pending = @ - 1,
                                       !.waiting_sessions = @ \ {Self}], jitter)
              ELSE w1
    IN [w |-> w2, ret |-> Cardinality(w.waiting_sessions), selected |-> TRUE]

\* One pass of wait_for_rsp with nothing to read and no keepalive due: the
\* timeout it settles on (None when the caller gave none and no session is
\* waiting or kept alive), the iterwaiters, the early return, the select,
\* the session's _timedout when its deadline has passed (due), the count.
wait_for_rsp(w, timeout, due, jitter) ==
    LET none == /\ timeout = NoTimeout
                /\ w.waiting_sessions = {}
                /\ w.keepalive_sessions = {}
        w1 == FlushIterwaiters(w)
        w2 == IF due /\ Self \in w1.waiting_sessions
              THEN timedout([w1 EXCEPT !.pending = @ - 1,
                                       !.waiting_sessions = @ \ {Self}], jitter)
              ELSE w1
    IN IF none
       THEN [w |-> w1, ret |-> 0, selected |-> FALSE]
       ELSE [w |-> w2, ret |-> Cardinality(w2.waiting_sessions), selected |-> TRUE]

\* C23: wait_for_rsp returns the number of sessions in waiting_sessions as it
\* returns; called with no timeout while no session is waiting and none is
\* kept alive, it returns 0 and does not block in select.
C23_ReturnsWaitingCount ==
    \A timeout \in Timeouts, due \in BOOLEAN, jitter \in TimeoutJitter :
       LET r == wait_for_rsp(World, timeout, due, jitter)
       IN /\ r.ret = Cardinality(r.w.waiting_sessions)
          /\ (timeout = NoTimeout /\ waiting_sessions = {} /\ keepalive_sessions = {})
                => r.ret = 0 /\ ~r.selected

\* Nothing waits and nothing is kept alive, with a waiter to notify.
C23_NothingToWaitFor ==
    /\ waiting_sessions = {}
    /\ keepalive_sessions = {}
    /\ AtTopLevel
    /\ obs.ntx > 0

\* C22: a synchronous raw_command with retry false whose reply does not come
\* gives up once its second has passed: the caller has its answer and
\* incommand is released.
C22_NoRetryGivesUp ==
    \A jitter \in TimeoutJitter :
       (/\ AtTopLevel
        /\ session.logged = 1
        /\ ~session.incommand
        /\ session.lastpayload = NoPayload
        /\ Self \notin waiting_sessions
        /\ obs.ncmds < MaxCmds)
          => LET w1 == raw_command(World, NetFnApp, CmdGetDeviceId, FALSE,
                                   [fn |-> "generic", cid |-> obs.ncmds + 1])
                 w2 == IF Head(w1.stack).k = "xmit"
                       THEN Xmit([w1 EXCEPT !.stack = Tail(@)], Head(w1.stack).retry)
                       ELSE w1
                 w3 == wait_for_rsp(w2, "1", TRUE, jitter).w
             IN /\ w3.session.lastresponse # "None"
                /\ ~w3.session.incommand

(* ------------------ two sessions under one dispatcher ------------------ *)
\* Two sessions, bmc1 and bmc2, share Session.socket, waiting_sessions,
\* pending and wait_for_rsp.  Here a session is what the dispatcher sees of
\* it: whether a request is outstanding, its seqlun, whether a synchronous
\* caller waits on it.  instances maps each to that record, wire holds the
\* requests no BMC has answered yet (out) and the socket's receive buffer
\* (sock), stack the running wait_for_rsp calls with their pktqueue, and
\* nonce counts the datagrams read from the socket.
Peers == {"bmc1", "bmc2"}
NewPeer == [incommand |-> FALSE, seqlun |-> 0, expected |-> FALSE, lastresponse |-> FALSE, sync |-> FALSE]

\* recvfrom, again and again while the socket is ready: the datagrams of the
\* buffer in their order, each with its rank among all that were read.
Numbered(q, n) == [i \in 1..Len(q) |-> [q[i] EXCEPT !.id = n + i]]

apart == <<session, console, keepalive_sessions, iterwaiters, bmc_handlers, env>>

InitDispatch ==
    /\ session = NewWorld.session
    /\ console = NoConsole
    /\ keepalive_sessions = {}
    /\ iterwaiters = <<>>
    /\ env = [profile |-> "ok", stale |-> 0, base |-> 0]
    /\ bmc_handlers = [n \in Peers |-> n]
    /\ instances = [n \in Peers |-> NewPeer]
    /\ waiting_sessions = {}
    /\ pending = 0
    /\ stack = <<>>
    /\ wire = [out |-> <<>>, sock |-> <<>>]
    /\ nonce = 0
    /\ obs = [routed |-> <<>>, ncmds |-> 0, nresent |-> 0]

\* raw_command on a session that is not in a command, called from outside
\* the dispatcher, with a callback or without (sync): _xmit_packet first
\* calls wait_for_rsp(timeout=0), which reads what the socket holds.
IssueCommand ==
    /\ stack = <<>>
    /\ obs.ncmds < MaxCmds
    /\ \E n \in Peers, sync \in BOOLEAN :
          /\ ~instances[n].incommand
          /\ instances' = [instances EXCEPT ![n].incommand = TRUE,
                                            ![n].expected = TRUE,
                                            ![n].sync = sync,
                                            ![n].lastresponse = IF sync THEN FALSE ELSE @]
          /\ stack' = <<[k |-> "xmit", peer |-> n, routing |-> FALSE,
                         pktqueue |-> Numbered(wire.sock, nonce)]>>
                      \o (IF sync THEN <<[k |-> "syncwait", peer |-> n, routing |-> FALSE,
                                          pktqueue |-> <<>>]>>
                          ELSE <<>>)
    /\ nonce' = nonce + Len(wire.sock)
    /\ wire' = [wire EXCEPT !.sock = <<>>]
    /\ obs' = [obs EXCEPT !.ncmds = @ + 1]
    /\ UNCHANGED <<waiting_sessions, pending>>
    /\ UNCHANGED apart

\* A BMC answers one of the requests it was sent.
Reply ==
    /\ \E i \in 1..Len(wire.out) :
          wire' = [out |-> SubSeq(wire.out, 1, i - 1) \o SubSeq(wire.out, i + 1, Len(wire.out)),
                   sock |-> Append(wire.sock, [wire.out[i] EXCEPT !.id = 0])]
    /\ UNCHANGED <<instances, stack, nonce, obs, waiting_sessions, pending>>
    /\ UNCHANGED apart

\* wait_for_rsp, called by the program's loop or by the loop of a
\* synchronous raw_command, finds the socket ready and reads it.
Poll ==
    /\ \/ stack = <<>>
       \/ /\ stack # <<>>
          /\ Head(stack).k = "syncwait"
          /\ ~instances[Head(stack).peer].lastresponse
    /\ wire.sock # <<>>
    /\ stack' = <<[k |-> "wait", peer |-> "", routing |-> FALSE,
                   pktqueue |-> Numbered(wire.sock, nonce)]>> \o stack
    /\ nonce' = nonce + Len(wire.sock)
    /\ wire' = [wire EXCEPT !.sock = <<>>]
    /\ UNCHANGED <<instances, obs, waiting_sessions, pending>>
    /\ UNCHANGED apart

\* pktqueue.popleft() and _route_ipmiresponse: the session registered for
\* the sender handles the datagram; the reply to its outstanding request
\* completes the command and calls the callback, which may send the
\* session's next command (chain), entering _xmit_packet and its
\* wait_for_rsp(timeout=0).  Back from the handler, pending goes down and
\* the socket is polled again.
RouteNext ==
    /\ stack # <<>>
    /\ Head(stack).k \in {"wait", "xmit"}
    /\ Head(stack).pktqueue # <<>>
    /\ LET d == Head(Head(stack).pktqueue)
           n == bmc_handlers[d.peer]
           due == instances[n].expected /\ d.seqlun = instances[n].seqlun
           done == [instances EXCEPT ![n].seqlun = (@ + 4) % 256,
                                     ![n].expected = FALSE,
                                     ![n].incommand = FALSE,
                                     ![n].lastresponse = IF instances[n].sync THEN TRUE ELSE @]
       IN \E chain \in BOOLEAN :
             /\ chain => due /\ ~instances[n].sync /\ obs.ncmds < MaxCmds
             /\ obs' = [obs EXCEPT !.routed = Append(@, [id |-> d.id, peer |-> n,
                                                         due |-> due, called |-> due]),
                                   !.ncmds = IF chain THEN @ + 1 ELSE @]
             /\ waiting_sessions' = IF due THEN waiting_sessions \ {n} ELSE waiting_sessions
             /\ instances' = IF ~due THEN instances
                             ELSE IF chain
                                  THEN [done EXCEPT ![n].incommand = TRUE,
                                                    ![n].expected = TRUE,
                                                    ![n].sync = FALSE]
                                  ELSE done
             /\ stack' = IF chain
                         THEN <<[k |-> "xmit", peer |-> n, routing |-> FALSE,
                                 pktqueue |-> Numbered(wire.sock, nonce)],
                                [Head(stack) EXCEPT !.pktqueue = Tail(@),
                                                    !.routing = TRUE]>>
                              \o Tail(stack)
                         ELSE <<[Head(stack) EXCEPT
                                    !.pktqueue = Tail(@) \o Numbered(wire.sock, nonce)]>>
                              \o Tail(stack)
             /\ pending' = IF chain THEN pending ELSE pending - 1
    /\ nonce' = nonce + Len(wire.sock)
    /\ wire' = [wire EXCEPT !.sock = <<>>]
    /\ UNCHANGED apart

\* The wait_for_rsp(timeout=0) of _xmit_packet is through: the request goes
\* out, and the handler that sent it returns to the call that routed to it.
XmitReturn ==
    /\ stack # <<>>
    /\ Head(stack).k = "xmit"
    /\ Head(stack).pktqueue = <<>>
    /\ LET n == Head(stack).peer
           rest == Tail(stack)
           back == rest # <<>> /\ Head(rest).routing
       IN /\ waiting_sessions' = waiting_sessions \cup {n}
          /\ pending' = IF back THEN pending ELSE pending + 1
          /\ stack' = IF back
                      THEN <<[Head(rest) EXCEPT
                                 !.routing = FALSE,
                                 !.pktqueue = @ \o Numbered(wire.sock, nonce)]>>
                           \o Tail(rest)
                      ELSE rest
          /\ nonce' = IF back THEN nonce + Len(wire.sock) ELSE nonce
          /\ wire' = [out |-> Append(wire.out, [peer |-> n, seqlun |-> instances[n].seqlun,
                                                id |-> 0]),
                      sock |-> IF back THEN <<>> ELSE wire.sock]
    /\ UNCHANGED <<instances, obs>>
    /\ UNCHANGED apart

\* A wait_for_rsp call of the program's loop or of a synchronous caller has
\* routed all it read, and returns.
PassReturn ==
    /\ stack # <<>>
    /\ Head(stack).k = "wait"
    /\ Head(stack).pktqueue = <<>>
    /\ stack' = Tail(stack)
    /\ UNCHANGED <<instances, obs, waiting_sessions, pending, wire, nonce>>
    /\ UNCHANGED apart

\* The loop of a synchronous raw_command finds lastresponse set.
SyncReturn ==
    /\ stack # <<>>
    /\ Head(stack).k = "syncwait"
    /\ instances[Head(stack).peer].lastresponse
    /\ stack' = Tail(stack)
    /\ UNCHANGED <<instances, obs, waiting_sessions, pending, wire, nonce>>
    /\ UNCHANGED apart

\* A wait_for_rsp call that read nothing finds the deadline of a session
\* passed: _timedout sends its request again.
Retry ==
    /\ \/ stack = <<>>
       \/ stack # <<>> /\ Head(stack).k = "syncwait"
    /\ wire.sock = <<>>
    /\ obs.nresent < MaxStale
    /\ \E n \in waiting_sessions :
          /\ instances[n].expected
          /\ wire' = [wire EXCEPT !.out = Append(@, [peer |-> n,
                                                     seqlun |-> instances[n].seqlun,
                                                     id |-> 0])]
    /\ obs' = [obs EXCEPT !.nresent = @ + 1]
    /\ UNCHANGED <<instances, stack, waiting_sessions, pending, nonce>>
    /\ UNCHANGED apart

NextDispatch ==
    \/ IssueCommand
    \/ Reply
    \/ Poll
    \/ RouteNext
    \/ XmitReturn
    \/ PassReturn
    \/ SyncReturn
    \/ Retry

SpecDispatch == InitDispatch /\ [][NextDispatch]_vars

\* C21: a reply for a session is routed to it and its callback called in
\* the call that read it, whatever the other session waits for, and the
\* datagrams are routed in the order in which they were read.
C21_RoutedInOrderRead ==
    /\ \A i \in 1..Len(obs.routed) : obs.routed[i].due => obs.routed[i].called
    /\ \A i, j \in 1..Len(obs.routed) :
          i < j => obs.routed[i].id < obs.routed[j].id

(* ----------------------- claims on the counters ------------------------ *)
\* C31: an open-session attempt takes a local session id that no
\* open-session request sent before it carried.
C31_OpenAttemptsDistinct ==
    [][\A i \in 1..Len(wire) :
          (/\ session'.sessioncontext = "OPENSESSION"
           /\ session'.localsid # session.localsid
           /\ wire[i].ptype = "rmcpplusopenreq")
             => session'.localsid # wire[i].lsid]_vars

\* C32: the session sequence number of a datagram that goes out is 0 before
\* the session is established and, from then on, higher than that of every
\* datagram the session sent before.
C32_SequenceNumbersIncrease ==
    [][obs'.ntx > obs.ntx
          => /\ session'.sessioncontext \notin {"ESTABLISHED", "None"}
                  => session'.netpacket.seq = 0
             /\ \A i \in 1..Len(wire) :
                   wire[i].seq # 0 => session'.netpacket.seq > wire[i].seq]_vars

(* ----------------------- the keepalive deadlines ----------------------- *)
\* Time in seconds: nonce is _monotonic_time(), keepalive_sessions maps the
\* session to its deadline, and of the session only logged and incommand
\* matter.  random.random() * 4.9 is one of KeepaliveJitter.
KeepaliveIdle == 25
KeepaliveJitter == {0, 4}
ClockStep == 10
MaxClock == 60

InitKeepalive ==
    /\ session = NewWorld.session
    /\ console = NoConsole
    /\ keepalive_sessions = <<>>
    /\ iterwaiters = <<>>
    /\ env = [profile |-> "ok", stale |-> 0, base |-> 0]
    /\ bmc_handlers = NoHandlers
    /\ instances = <<>>
    /\ waiting_sessions = {}
    /\ pending = 0
    /\ stack = <<>>
    /\ wire = <<>>
    /\ nonce \in {0, ClockStep}
    /\ obs = [ncmds |-> 0, keepalives |-> 0]

Tick ==
    /\ nonce < MaxClock
    /\ nonce' = nonce + ClockStep
    /\ UNCHANGED <<session, keepalive_sessions, obs>>
    /\ UNCHANGED <<console, iterwaiters, env, bmc_handlers, instances, waiting_sessions, pending, stack, wire>>

\* _got_priv_level without error: logged, and the first deadline.
LoginSucceeds ==
    /\ session.logged = 0
    /\ Self \notin DOMAIN keepalive_sessions
    /\ session' = [session EXCEPT !.logged = 1]
    /\ \E r \in KeepaliveJitter :
          keepalive_sessions' = (Self :> (nonce + KeepaliveIdle + r))
    /\ UNCHANGED <<nonce, obs>>
    /\ UNCHANGED <<console, iterwaiters, env, bmc_handlers, instances, waiting_sessions, pending, stack, wire>>

\* raw_command with a callback on the logged session: send_payload moves the
\* deadline of a session that is in keepalive_sessions.
CommandSent ==
    /\ session.logged = 1
    /\ ~session.incommand
    /\ obs.ncmds < MaxCmds
    /\ session' = [session EXCEPT !.incommand = TRUE]
    /\ \E r \in KeepaliveJitter :
          keepalive_sessions' = [n \in DOMAIN keepalive_sessions |->
                                    nonce + KeepaliveIdle + r]
    /\ obs' = [obs EXCEPT !.ncmds = @ + 1]
    /\ UNCHANGED nonce
    /\ UNCHANGED <<console, iterwaiters, env, bmc_handlers, instances, waiting_sessions, pending, stack, wire>>

\* _parse_ipmi_payload with the reply: the command is over.
CommandDone ==
    /\ session.incommand
    /\ session' = [session EXCEPT !.incommand = FALSE]
    /\ UNCHANGED <<nonce, obs, keepalive_sessions>>
    /\ UNCHANGED <<console, iterwaiters, env, bmc_handlers, instances, waiting_sessions, pending, stack, wire>>

\* logout with a callback: Close Session through raw_command, then logged = 0.
Logout ==
    /\ session.logged = 1
    /\ ~session.incommand
    /\ session' = [session EXCEPT !.incommand = TRUE, !.logged = 0]
    /\ \E r \in KeepaliveJitter :
          keepalive_sessions' = [n \in DOMAIN keepalive_sessions |->
                                    nonce + KeepaliveIdle + r]
    /\ UNCHANGED <<nonce, obs>>
    /\ UNCHANGED <<console, iterwaiters, env, bmc_handlers, instances, waiting_sessions, pending, stack, wire>>

\* wait_for_rsp finds the deadline of a session of keepalive_sessions
\* passed: it sets a new one and calls _keepalive, which returns if the
\* session is in a command and otherwise sends Get Device ID.
KeepaliveDue ==
    /\ Self \in DOMAIN keepalive_sessions
    /\ keepalive_sessions[Self] < nonce
    /\ obs.keepalives < MaxCalls
    /\ \E r, r2 \in KeepaliveJitter :
          keepalive_sessions' =
             (Self :> IF session.incommand THEN KeepaliveIdle + r
                      ELSE nonce + KeepaliveIdle + r2)
    /\ session' = [session EXCEPT !.incommand = TRUE]
    /\ obs' = [obs EXCEPT !.keepalives = IF session.incommand THEN @ ELSE @ + 1]
    /\ UNCHANGED nonce
    /\ UNCHANGED <<console, iterwaiters, env, bmc_handlers, instances, waiting_sessions, pending, stack, wire>>

NextKeepalive ==
    \/ Tick
    \/ LoginSucceeds
    \/ CommandSent
    \/ CommandDone
    \/ Logout
    \/ KeepaliveDue

SpecKeepalive == InitKeepalive /\ [][NextKeepalive]_vars

\* C33: whenever the keepalive deadline of a session is set, it is set to
\* the current time plus 25 s plus at most 4.9 s.
C33_DeadlineAfterNow ==
    [][keepalive_sessions' # keepalive_sessions
          => /\ keepalive_sessions'[Self] >= nonce + KeepaliveIdle
             /\ keepalive_sessions'[Self] < nonce + KeepaliveIdle + 5]_vars

\* C38: a session in keepalive_sessions is logged in, and a keepalive
\* command is issued only for a logged session.
C38_KeepaliveOnlyLogged ==
    [][/\ Self \in DOMAIN keepalive_sessions' => session'.logged = 1
       /\ obs'.keepalives > obs.keepalives => session.logged = 1]_vars

(* --------------------- claims on the console's output ------------------ *)
\* C34: while awaitingack is set, send_data only appends to pendingoutput;
\* an inbound SOL payload that is not a NACK of myseq leaves myseq as it is;
\* and the bytes of the last packet followed by those of pendingoutput are in
\* the order in which they were handed to send_data.
C34_OnePacketInFlight ==
    LET c == console
        bytes == c.lastpayload.text \o c.pendingoutput
    IN /\ c.awaitingack
          => /\ send_data(World, <<1>>) =
                   [World EXCEPT !.console.pendingoutput = @ \o <<1>>,
                                 !.console.nsent = @ + 1]
             /\ \A p \in InboundSol :
                   ~(p.nacked /\ p.ackseq = c.myseq)
                      => /\ sol_tail(World, p).console.myseq = c.myseq
                         /\ got_sol_payload(World, p).console.myseq = c.myseq
       /\ c.lastpayload.pt = "sol"
          => \A i, j \in 1..Len(bytes) : i < j => bytes[i] < bytes[j]

\* Bytes were handed to send_data while a packet awaited its ack, and a SOL
\* payload that is no NACK of it is coming in.
C34_HeldBehindPacket ==
    /\ console.awaitingack
    /\ console.pendingoutput # <<>>
    /\ \E p \in InboundSol : ~(p.nacked /\ p.ackseq = console.myseq)

\* C35: myseq is 0 before the first SOL packet and in 1..15 after it; the
\* packet _sendpendingoutput builds carries the myseq after the last one,
\* and after 15 comes 1.
C35_MyseqWraps ==
    /\ console.myseq \in 0..15
    /\ console.awaitingack => console.myseq \in 1..15
    /\ \A m \in 0..15 :
          LET w == sendpendingoutput([World EXCEPT !.console.myseq = m])
          IN /\ w.console.myseq = NextMyseq(m)
             /\ w.console.lastpayload.hdr[1] = NextMyseq(m)
             /\ w.console.myseq \in 1..15

\* A second SOL packet has been built.
C35_SecondPacket ==
    /\ console.myseq = 2
    /\ console.lastpayload.hdr[1] = 2

\* C36: while an IPMI command is outstanding, an inbound SOL payload leaves
\* lastpayload, the session's entry in waiting_sessions, incommand and what
\* the session expects as the reply, and takes nothing from pendingpayloads.
C36_SolLeavesCommand ==
    \A d \in Inbound, jitter \in TimeoutJitter :
       (d.ptype = "sol" /\ session.lastpayload.pt = "ipmi")
          => LET w == handle_ipmi2_packet(World, d, jitter)
             IN /\ w.session.lastpayload = session.lastpayload
                /\ w.session.last_payload_type = session.last_payload_type
                /\ w.waiting_sessions = waiting_sessions
                /\ w.session.incommand = session.incommand
                /\ ExpectedReply(w.session, [seqlun |-> session.seqlun,
                                             netfn |-> session.expectednetfn,
                                             cmd |-> session.expectedcmd])
                /\ PrefixOf(session.pendingpayloads, w.session.pendingpayloads)

\* A SOL payload of the session comes in while an IPMI command is
\* outstanding with SOL payloads queued behind it.
C36_SolDuringCommand ==
    /\ session.lastpayload.pt = "ipmi"
    /\ Self \in waiting_sessions
    /\ session.incommand
    /\ session.sol_handler
    /\ \E d \in Inbound :
          /\ d.ptype = "sol"
          /\ handle_ipmi2_packet(World, d, 4) # World

\* The console with SOL active and nothing to send, and one command of the
\* caller on its session, the first after Activate Payload.
CommandBesideSol ==
    /\ AtTopLevel
    /\ session.logged = 1
    /\ ~Blocked(session)
    /\ obs.ncmds = 1
    /\ Commit(raw_command(World, NetFnApp, CmdGetDeviceId, TRUE,
                          [fn |-> "user", cid |-> obs.ncmds + 1]))
    /\ UNCHANGED env

\* The BMC stops sending when MaxQueue payloads wait behind the command.
MaxQueue == 2

DeliverBesideCommand ==
    /\ Len(session.pendingpayloads) < MaxQueue
    /\ Deliver

NextSolCommand ==
    \/ CommandBesideSol
    \/ DeliverBesideCommand
    \/ Expire
    \/ ResumeXmit

SpecSolCommand == InitSol /\ [][NextSolCommand]_vars

\* C37: when payloads wait in pendingpayloads and no handler is running, a
\* request is outstanding: lastpayload is set and the session is in
\* waiting_sessions, so that its reply or its expiry moves the queue.
C37_QueueBehindOutstanding ==
    (AtTopLevel /\ Len(session.pendingpayloads) > 0)
       => /\ session.lastpayload # NoPayload
          /\ Self \in waiting_sessions

(* ----------------------- the AES pad of a payload ---------------------- *)
\* A payload is a sequence of bytes.  wire holds the payload handed to
\* send_payload, what _aespad makes of it, the size written in the header,
\* and what the receiving side keeps of the decrypted bytes.
MaxPayloadLen == 33
ByteSeeds == {1, 5, 17, 255}
Payloads == {[i \in 1..n |-> (i * b) % 256] : n \in 0..MaxPayloadLen, b \in ByteSeeds}

\* _aespad without the inversion of the remainder.
aespad_remainder(data) ==
    LET neededpad == (Len(data) + 1) % 16
    IN data \o [i \in 1..neededpad |-> i] \o <<neededpad>>

aespad(data) ==
    LET currlen == Len(data) + 1
        neededpad == IF currlen % 16 # 0 THEN 16 - (currlen % 16) ELSE 0
    IN data \o [i \in 1..neededpad |-> i] \o <<neededpad>>

\* send_payload: the two size bytes of an encrypted RMCP+ payload.
newpsize(psize) ==
    LET pad == IF (psize + 1) % 16 # 0 THEN 16 - ((psize + 1) % 16) ELSE 0
        size == psize + pad + 17
    IN (size % 256) + 256 * ((size \div 256) % 256)

\* _handle_ipmi2_packet: padsize = payload[-1] + 1; payload[:-padsize].
strip_pad(payload) ==
    SubSeq(payload, 1, Len(payload) - (payload[Len(payload)] + 1))

InitPad ==
    /\ session = NewWorld.session
    /\ console = NoConsole
    /\ keepalive_sessions = {}
    /\ iterwaiters = <<>>
    /\ env = [profile |-> "ok", stale |-> 0, base |-> 0]
    /\ bmc_handlers = NoHandlers
    /\ instances = <<>>
    /\ waiting_sessions = {}
    /\ pending = 0
    /\ stack = <<>>
    /\ nonce = 0
    /\ obs = NewWorld.obs
    /\ \E p \in Payloads :
          wire = [stage |-> "plain", payload |-> p, padded |-> <<>>, psize |-> 0,
                  kept |-> <<>>]

\* send_payload with confalgo set pads the payload and writes its size.
Encrypt ==
    /\ wire.stage = "plain"
    /\ wire' = [wire EXCEPT !.stage = "sent",
                            !.padded = aespad(wire.payload),
                            !.psize = newpsize(Len(wire.payload))]
    /\ UNCHANGED <<session, console, keepalive_sessions, iterwaiters, env, bmc_handlers, instances, waiting_sessions, pending, stack, nonce, obs>>

\* The receiving side decrypts and drops the pad.
Decrypt ==
    /\ wire.stage = "sent"
    /\ wire' = [wire EXCEPT !.stage = "kept", !.kept = strip_pad(wire.padded)]
    /\ UNCHANGED <<session, console, keepalive_sessions, iterwaiters, env, bmc_handlers, instances, waiting_sessions, pending, stack, nonce, obs>>

NextPad ==
    \/ Encrypt
    \/ Decrypt

SpecPad == InitPad /\ [][NextPad]_vars

\* C39: the padded payload is the payload of n bytes, then p bytes 1..p, then
\* the byte p, with 0 <= p <= 15 and n + p + 1 a multiple of 16; the size in
\* the header is n + p + 17; and dropping the last byte's value plus one
\* bytes from the padded payload gives the payload back.
C39_PadAndStrip ==
    LET n == Len(wire.payload)
        p == wire.padded[Len(wire.padded)]
    IN /\ wire.stage # "plain"
          => /\ p \in 0..15
             /\ (n + p + 1) % 16 = 0
             /\ n % 16 = 15 => p = 0
             /\ Len(wire.padded) = n + p + 1
             /\ SubSeq(wire.padded, 1, n) = wire.payload
             /\ \A i \in 1..p : wire.padded[n + i] = i
             /\ wire.psize = n + p + 17
       /\ wire.stage = "kept" => wire.kept = wire.payload

\* A payload of 15 bytes, which needs no pad byte, has come back.
C39_NoPadNeeded ==
    /\ wire.stage = "kept"
    /\ Len(wire.payload) = 15
    /\ Len(wire.padded) = 16

(* ----------------------- the pending counter --------------------------- *)
\* C40: the pending counter is never negative and is the number of sessions
\* in waiting_sessions, the requests that await a reply.
C40_PendingCountsWaiting ==
    /\ pending >= 0
    /\ AtTopLevel => pending = Cardinality(waiting_sessions)

=============================================================================
